---- MODULE Spec2Model ----
(***************************************************************************)
(* Action-resolution core of the TRPG agent: the function registry, the    *)
(* hp transaction and RealExecutionEngine.process                          *)
(* (src/Agent/implementations/execution_engine.py), and the state-manager  *)
(* transaction (src/Agent/interfaces/state_management_interfaces.py with   *)
(* src/Agent/implementations/fillable_state_managers.py).                  *)
(*                                                                         *)
(* Strings of the program are written in ASCII here.  Categories:          *)
(*   "attack" = gongji, "search" = sousuo, "dialogue" = duihua,            *)
(*   "trade" = jiaoyi, "move" = yidong, "status" = zhuangtai chaxun,       *)
(*   "interact" = jiaohu, "skill" = jineng, "qita" = the Chinese word for  *)
(*   'other' used by find_functions_by_intent, "other" = the English       *)
(*   default of register, "fly" = a category that is no known tag.         *)
(* Names and targets are sequences of characters, so that lower() and the  *)
(* substring test of the actions are computed, not assumed.                *)
(***************************************************************************)
EXTENDS Integers, Sequences, FiniteSets, TLC

VARIABLES
    registry,    \* RealFunctionRegistry: _functions and _categories
    world,       \* the game state read and written by process
    history,     \* RealExecutionEngine.execution_history
    calls,       \* number of process calls made so far
    regs,        \* number of register/unregister calls after bootstrap
    last,        \* observation of the last process call
    sm,          \* state of the player and NPC state managers
    pending,     \* StateTransactionManager.pending_operations
    applied,     \* StateTransactionManager.applied_changes
    smlast,      \* observation of the last StateTransactionManager call
    env,         \* state of the environment manager: its game_map
    probe,       \* the last query made of a manager or an action
    txn,         \* a RealStateTransaction an action drives by hand
    bridge       \* RealModelBridge: its call_history, and the calls made

vars ==
    <<registry, world, history, calls, regs, last, sm, pending, applied,
      smlast, env, probe, txn, bridge>>
engineVars == <<registry, world, history, calls, regs, last>>
smVars == <<sm, pending, applied, smlast>>
envVars == <<env, probe>>
txVars == <<txn>>
bridgeVars == <<bridge>>

----------------------------------------------------------------------------
(* Bounds *)

MaxCalls == 1
MaxRegs == 1
MaxAdds == 2

----------------------------------------------------------------------------
(* Strings *)

Goblin == <<"ge", "bu", "lin">>
Merchant == <<"shang", "ren", "lao", "yue", "han">>
Unspecified == <<"wei", "zhi", "ding">>
PlayerTarget == <<"p", "l", "a", "y", "e", "r">>
Ghost == <<"G", "h">>
EmptyString == <<>>
\* the place RealPlayerState.__init__ puts the player in
StartVillage == <<"qi", "shi", "cun", "zhuang">>

\* str.lower() on one character
LowerChar(c) ==
    IF c = "G" THEN "g" ELSE IF c = "B" THEN "b" ELSE c

\* str.lower()
Lower(s) == [i \in 1..Len(s) |-> LowerChar(s[i])]

\* the Python test  sub in s
Contains(sub, s) ==
    \E i \in 0..(Len(s) - Len(sub)) : SubSeq(s, i + 1, i + Len(sub)) = sub

Max(a, b) == IF a >= b THEN a ELSE b
Min(a, b) == IF a <= b THEN a ELSE b

----------------------------------------------------------------------------
(* Data structures *)

Categories ==
    {"attack", "search", "dialogue", "trade", "move", "status", "interact",
     "skill", "qita", "other", "fly"}

\* ExecutionResult(success, action_taken, state_changes, dice_results,
\* failure_reason); failure_reason defaults to the empty string
ExecutionResult(success, state_changes, dice_results, failure_reason) ==
    [success |-> success, state_changes |-> state_changes,
     dice_results |-> dice_results, failure_reason |-> failure_reason]

NoResult == ExecutionResult(FALSE, <<>>, <<>>, "none")

\* a DiceRoll whose total forgets the modifier
DiceRoll_total_is_result(name, result, modifier) ==
    [name |-> name, result |-> result, modifier |-> modifier,
     total |-> result]

\* DiceRoll: __post_init__ stores total = result + modifier
DiceRoll(name, result, modifier) ==
    [name |-> name, result |-> result, modifier |-> modifier,
     total |-> result + modifier]

StateChange(target, property, value, old_value) ==
    [target |-> target, action |-> "modify", property |-> property,
     value |-> value, old_value |-> old_value]

\* An Intent.  typeOk says whether intent.type is an IntentType member:
\* to_dict reads self.type.value and raises AttributeError otherwise.
Intent(typeOk, category, action, target) ==
    [typeOk |-> typeOk, category |-> category, action |-> action,
     target |-> target]

\* Intent.to_dict: TRUE when it raises
IntentToDictRaises(intent) == ~intent.typeOk

----------------------------------------------------------------------------
(* The world: RealGameState with RealPlayerState and RealWorldState.npcs  *)

\* RealNPC.__init__: alive = hp > 0
RealNPC(name, type, hp) ==
    [name |-> name, type |-> type, hp |-> hp, alive |-> (hp > 0)]

PlayerMaxHp == 100
PlayerMaxMp == 50
GoblinHp == 15
MerchantHp == 50

\* RealGameState.__init__, with the hp the player and the goblin have by
\* the time the engine is used
RealGameState(php, goblin_hp) ==
    [php |-> php, pmax |-> PlayerMaxHp, pmp |-> PlayerMaxMp,
     location |-> StartVillage,
     npcs |-> <<RealNPC(Goblin, "enemy", goblin_hp),
                RealNPC(Merchant, "friendly", MerchantHp)>>]

None == 0 - 1

\* reading target's property in the live world (None when there is none)
ReadWorld(w, target, property) ==
    IF target = PlayerTarget
    THEN IF property = "hp" THEN w.php
         ELSE IF property = "mp" THEN w.pmp ELSE None
    ELSE IF \E i \in 1..Len(w.npcs) : w.npcs[i].name = target
         THEN LET i == CHOOSE i \in 1..Len(w.npcs) : w.npcs[i].name = target
              IN IF property = "hp" THEN w.npcs[i].hp ELSE None
         ELSE None

----------------------------------------------------------------------------
(* RealStateTransaction *)

\* __enter__: the saved state, player hp and a dict from NPC name to hp
\* (a later NPC of the same name overwrites an earlier one)
TxEnter(w) ==
    [player_hp |-> w.php,
     npc_states |->
        [n \in {w.npcs[i].name : i \in 1..Len(w.npcs)} |->
            LET last_i == CHOOSE i \in 1..Len(w.npcs) :
                    /\ w.npcs[i].name = n
                    /\ \A j \in (i + 1)..Len(w.npcs) : w.npcs[j].name # n
            IN w.npcs[last_i].hp]]

\* add_change applied to the live world: only hp is applied
ApplyChange(w, change) ==
    IF change.target = PlayerTarget /\ change.property = "hp"
    THEN [w EXCEPT !.php = change.value]
    ELSE [w EXCEPT !.npcs =
            [i \in 1..Len(w.npcs) |->
                IF w.npcs[i].name = change.target /\ change.property = "hp"
                THEN [w.npcs[i] EXCEPT !.hp = change.value]
                ELSE w.npcs[i]]]

\* A transaction in flight: the live world, _changes, _original_state,
\* _committed, and what a read of the changed property yields after each add
TxBegin(w) ==
    [world |-> w, changes |-> <<>>, original |-> TxEnter(w),
     committed |-> FALSE, reads |-> <<>>]

add_change(tx, change) ==
    LET w2 == ApplyChange(tx.world, change)
    IN [tx EXCEPT !.world = w2,
                  !.changes = Append(tx.changes, change),
                  !.reads = Append(tx.reads,
                                   ReadWorld(w2, change.target, change.property))]

\* commit that loses the last change of _changes
commit_drops_last(tx) ==
    [tx |-> [tx EXCEPT !.committed = TRUE],
     changes |-> SubSeq(tx.changes, 1, Len(tx.changes) - 1)]

\* commit: marks the transaction committed and returns a copy of _changes
commit(tx) ==
    [tx |-> [tx EXCEPT !.committed = TRUE], changes |-> tx.changes]

\* rollback that restores the player's hp and forgets the NPCs
rollback_player_only(tx) ==
    [tx EXCEPT !.world = [tx.world EXCEPT !.php = tx.original.player_hp]]

\* rollback: restores the player's hp and the hp of every NPC whose name
\* was saved
rollback(tx) ==
    [tx EXCEPT !.world =
        [tx.world EXCEPT
            !.php = tx.original.player_hp,
            !.npcs = [i \in 1..Len(tx.world.npcs) |->
                IF tx.world.npcs[i].name \in DOMAIN tx.original.npc_states
                THEN [tx.world.npcs[i] EXCEPT
                        !.hp = tx.original.npc_states[tx.world.npcs[i].name]]
                ELSE tx.world.npcs[i]]]]

\* __exit__: rolls back when an exception leaves the block uncommitted
TxExit(tx, raised) ==
    IF raised /\ ~tx.committed THEN rollback(tx) ELSE tx

----------------------------------------------------------------------------
(* RealFunctionRegistry *)

NoCategory == "none"

\* A GameFunction object: its name, the category of its metadata
\* (NoCategory when the metadata declares none) and the class it is of
GameFunction(name, category, kind) ==
    [name |-> name, category |-> category, kind |-> kind]

\* _register_default_functions, in registration order
DefaultFunctions ==
    <<GameFunction("attack", "attack", "attack"),
      GameFunction("search", "search", "search"),
      GameFunction("dialogue", "dialogue", "dialogue"),
      GameFunction("trade", "trade", "trade"),
      GameFunction("status", "status", "status"),
      GameFunction("movement", "move", "movement"),
      GameFunction("interaction", "interact", "interaction"),
      GameFunction("skill", "skill", "skill")>>

\* Functions a caller registers after bootstrap; what their can_execute and
\* execute do is an input of each process call
CustomFunctions ==
    {GameFunction("custom_a", "qita", "custom"),
     GameFunction("custom_b", "attack", "custom")}

EmptyRegistry ==
    [functions |-> [n \in {} |-> GameFunction("", "", "")],
     categories |-> [c \in {} |-> <<>>]]

\* register
register(reg, function) ==
    LET category == IF function.category = NoCategory
                    THEN "other" ELSE function.category
        old == IF category \in DOMAIN reg.categories
               THEN reg.categories[category] ELSE <<>>
    IN [functions |->
            [n \in DOMAIN reg.functions \cup {function.name} |->
                IF n = function.name THEN function ELSE reg.functions[n]],
        categories |->
            [c \in DOMAIN reg.categories \cup {category} |->
                IF c = category THEN Append(old, function.name)
                ELSE reg.categories[c]]]

\* list.remove: the list without the first occurrence of x
RemoveFirst(list, x) ==
    IF \E i \in 1..Len(list) : list[i] = x
    THEN LET k == CHOOSE i \in 1..Len(list) :
                    list[i] = x /\ \A j \in 1..(i - 1) : list[j] # x
         IN SubSeq(list, 1, k - 1) \o SubSeq(list, k + 1, Len(list))
    ELSE list

\* unregister
unregister(reg, name) ==
    IF name \in DOMAIN reg.functions
    THEN [functions |-> [n \in DOMAIN reg.functions \ {name} |-> reg.functions[n]],
          categories |-> [c \in DOMAIN reg.categories |->
                            RemoveFirst(reg.categories[c], name)]]
    ELSE reg

\* get_functions_by_category: the functions of the category in list order;
\* raised is the KeyError of self._functions[name]
get_functions_by_category(reg, category) ==
    LET function_names == IF category \in DOMAIN reg.categories
                          THEN reg.categories[category] ELSE <<>>
    IN IF \E i \in 1..Len(function_names) :
              function_names[i] \notin DOMAIN reg.functions
       THEN [raised |-> TRUE, functions |-> <<>>]
       ELSE [raised |-> FALSE,
             functions |-> [i \in 1..Len(function_names) |->
                                reg.functions[function_names[i]]]]

KnownCategories ==
    {"attack", "search", "dialogue", "trade", "move", "status", "interact",
     "skill"}

\* find_functions_by_intent
find_functions_by_intent(reg, intent) ==
    IF intent.category \in KnownCategories
    THEN get_functions_by_category(reg, intent.category)
    ELSE get_functions_by_category(reg, "qita")

RECURSIVE RegisterAll(_, _)
RegisterAll(reg, fs) ==
    IF fs = <<>> THEN reg
    ELSE RegisterAll(register(reg, Head(fs)), Tail(fs))

\* RealExecutionEngine.__init__: the registry after bootstrap
BootRegistry == RegisterAll(EmptyRegistry, DefaultFunctions)

----------------------------------------------------------------------------
(* The built-in actions.  execute returns the transaction it leaves, the  *)
(* result it returns and whether it raised instead of returning.           *)

Done(tx, result) == [raised |-> FALSE, tx |-> tx, result |-> result]
Raised(tx) == [raised |-> TRUE, tx |-> tx, result |-> NoResult]

\* ExecutionResult(..., metadata=...): the dataclass has no metadata field,
\* so the constructor raises TypeError
ExecutionResultWithMetadata(tx) == Raised(tx)

\* the first index of the NPC list among those passing a test, 0 if none:
\* the for loop with break over world.npcs
FirstNpc(passing) ==
    IF passing = {} THEN 0
    ELSE CHOOSE i \in passing : \A j \in passing : i <= j

\* target_name.lower() in npc.name.lower()
NameMatches(target_name, npc) == Contains(Lower(target_name), Lower(npc.name))

\* can_execute that accepts any non-empty target, whatever the NPCs' names
AttackCanExecute_any_target(intent, w) ==
    /\ intent.category = "attack"
    /\ intent.target # EmptyString

\* AttackFunction.can_execute
AttackCanExecute(intent, w) ==
    /\ intent.category = "attack"
    /\ intent.target # EmptyString
    /\ \E i \in 1..Len(w.npcs) : NameMatches(intent.target, w.npcs[i])

AttackModifier == 2

\* an attack that does not stop the hp at zero
AttackExecute_unclamped(intent, tx, d6) ==
    LET k == FirstNpc({i \in 1..Len(tx.world.npcs) :
                          NameMatches(intent.target, tx.world.npcs[i])})
    IN IF k = 0
       THEN Done(tx, ExecutionResult(FALSE, <<>>, <<>>, "target_not_found"))
       ELSE LET target_npc == tx.world.npcs[k]
                damage_roll == DiceRoll("damage", d6, AttackModifier)
                hp_change == StateChange(target_npc.name, "hp",
                                         target_npc.hp - damage_roll.total,
                                         target_npc.hp)
            IN IF target_npc.hp <= 0
               THEN Done(tx, ExecutionResult(FALSE, <<>>, <<>>,
                                             "already_defeated"))
               ELSE Done(add_change(tx, hp_change),
                         ExecutionResult(TRUE, <<hp_change>>,
                                         <<damage_roll>>, ""))

\* AttackFunction.execute, d6 the damage roll
AttackExecute(intent, tx, d6) ==
    LET k == FirstNpc({i \in 1..Len(tx.world.npcs) :
                          NameMatches(intent.target, tx.world.npcs[i])})
    IN IF k = 0
       THEN Done(tx, ExecutionResult(FALSE, <<>>, <<>>, "target_not_found"))
       ELSE LET target_npc == tx.world.npcs[k]
                damage_roll == DiceRoll("damage", d6, AttackModifier)
                total_damage == damage_roll.result + damage_roll.modifier
                new_hp == Max(0, target_npc.hp - total_damage)
                hp_change == StateChange(target_npc.name, "hp", new_hp,
                                         target_npc.hp)
            IN IF target_npc.hp <= 0
               THEN Done(tx, ExecutionResult(FALSE, <<>>, <<>>,
                                             "already_defeated"))
               ELSE Done(add_change(tx, hp_change),
                         ExecutionResult(TRUE, <<hp_change>>,
                                         <<damage_roll>>, ""))

SearchDC == 10

\* a search whose failure gives no reason
SearchExecute_silent_failure(intent, tx, d20) ==
    LET search_roll == DiceRoll("search", d20, 0)
    IN IF search_roll.result >= SearchDC
       THEN ExecutionResultWithMetadata(tx)
       ELSE Done(tx, ExecutionResult(FALSE, <<>>, <<search_roll>>, ""))

\* SearchFunction.execute, d20 the search roll
SearchExecute(intent, tx, d20) ==
    LET search_roll == DiceRoll("search", d20, 0)
    IN IF search_roll.result >= SearchDC
       THEN ExecutionResultWithMetadata(tx)
       ELSE Done(tx, ExecutionResult(FALSE, <<>>, <<search_roll>>,
                                     "nothing_found"))

\* DialogueFunction.can_execute
DialogueCanExecute(intent, w) ==
    /\ intent.category = "dialogue"
    /\ intent.target # EmptyString
    /\ \E i \in 1..Len(w.npcs) : NameMatches(intent.target, w.npcs[i])

\* DialogueFunction.execute
DialogueExecute(intent, tx) ==
    LET k == FirstNpc({i \in 1..Len(tx.world.npcs) :
                          NameMatches(intent.target, tx.world.npcs[i])})
    IN IF k = 0
       THEN Done(tx, ExecutionResult(FALSE, <<>>, <<>>, "target_not_found"))
       ELSE IF ~tx.world.npcs[k].alive
       THEN Done(tx, ExecutionResult(FALSE, <<>>, <<>>, "cannot_respond"))
       ELSE ExecutionResultWithMetadata(tx)

MerchantTypes == {"friendly", "shangren", "merchant"}

\* can_execute that accepts an NPC of any type as the merchant
TradeCanExecute_any_type(intent, w) ==
    /\ intent.category = "trade"
    /\ intent.target # EmptyString
    /\ \E i \in 1..Len(w.npcs) : NameMatches(intent.target, w.npcs[i])

\* TradeFunction.can_execute
TradeCanExecute(intent, w) ==
    /\ intent.category = "trade"
    /\ intent.target # EmptyString
    /\ \E i \in 1..Len(w.npcs) :
          NameMatches(intent.target, w.npcs[i]) /\ w.npcs[i].type \in MerchantTypes

\* TradeFunction.execute
TradeExecute(intent, tx) ==
    LET k == FirstNpc({i \in 1..Len(tx.world.npcs) :
                          /\ NameMatches(intent.target, tx.world.npcs[i])
                          /\ tx.world.npcs[i].type \in MerchantTypes})
    IN IF k = 0
       THEN Done(tx, ExecutionResult(FALSE, <<>>, <<>>, "merchant_not_found"))
       ELSE ExecutionResultWithMetadata(tx)

\* StatusFunction.execute
StatusExecute(intent, tx) == ExecutionResultWithMetadata(tx)

\* a movement that succeeds towards any target that is specified
MovementExecute_moves(intent, tx) ==
    IF intent.target \in {Unspecified, EmptyString}
    THEN Done(tx, ExecutionResult(FALSE, <<>>, <<>>, "need_target"))
    ELSE Done(tx, ExecutionResult(TRUE, <<>>, <<>>, ""))

\* MovementFunction.execute
MovementExecute(intent, tx) ==
    IF intent.target \in {Unspecified, EmptyString}
    THEN Done(tx, ExecutionResult(FALSE, <<>>, <<>>, "need_target"))
    ELSE ExecutionResultWithMetadata(tx)

InteractionDC == 12

\* InteractionFunction.execute, d20 the interaction roll
InteractionExecute(intent, tx, d20) ==
    LET interaction_roll == DiceRoll("interaction", d20, 0)
    IN IF interaction_roll.result >= InteractionDC
       THEN ExecutionResultWithMetadata(tx)
       ELSE Done(tx, ExecutionResult(FALSE, <<>>, <<interaction_roll>>,
                                     "no_reaction"))

\* the skill names that contain one of the healing words
HealingSkills == {"zhiliaoshu"}

SkillDC == 10
SkillModifier == 2
HealBonus == 2

\* SkillFunction.execute, d20 the skill roll and d8 the heal roll
SkillExecute(intent, tx, d20, d8) ==
    LET skill_roll == DiceRoll("skill", d20, SkillModifier)
        heal_amount == d8 + HealBonus
        new_hp == Min(tx.world.pmax, tx.world.php + heal_amount)
        hp_change == StateChange(PlayerTarget, "hp", new_hp, tx.world.php)
    IN IF skill_roll.result >= SkillDC
       THEN IF intent.action \in HealingSkills /\ new_hp > tx.world.php
            THEN ExecutionResultWithMetadata(add_change(tx, hp_change))
            ELSE ExecutionResultWithMetadata(tx)
       ELSE Done(tx, ExecutionResult(FALSE, <<>>, <<skill_roll>>,
                                     "skill_failed"))

----------------------------------------------------------------------------
(* Caller-registered actions.  What such an action does in one call is a   *)
(* script: the changes it passes to add_change, in order, then how it      *)
(* ends, and the state_changes list it puts in the result it returns.      *)

ChangePool ==
    {StateChange(PlayerTarget, "hp", 7, 0),
     StateChange(Goblin, "hp", 2, 0),
     StateChange(PlayerTarget, "mp", 3, 0)}

RECURSIVE SeqsUpTo(_, _)
SeqsUpTo(S, n) ==
    IF n = 0 THEN {<<>>}
    ELSE LET shorter == SeqsUpTo(S, n - 1)
         IN shorter \cup {Append(q, x) : q \in shorter, x \in S}

Endings == {"success", "success_own_list_empty", "failure", "raise"}

Scripts == [adds : SeqsUpTo(ChangePool, MaxAdds), ending : Endings]

NoScript == [adds |-> <<>>, ending |-> "success"]

RECURSIVE AddAll(_, _)
AddAll(tx, changes) ==
    IF changes = <<>> THEN tx
    ELSE AddAll(add_change(tx, Head(changes)), Tail(changes))

\* execute of a caller-registered action following the script
CustomExecute(script, tx) ==
    LET tx2 == AddAll(tx, script.adds)
    IN CASE script.ending = "success" ->
              Done(tx2, ExecutionResult(TRUE, tx2.changes, <<>>, ""))
         [] script.ending = "success_own_list_empty" ->
              Done(tx2, ExecutionResult(TRUE, <<>>, <<>>, ""))
         [] script.ending = "failure" ->
              Done(tx2, ExecutionResult(FALSE, tx2.changes, <<>>,
                                        "custom_failure"))
         [] OTHER -> Raised(tx2)

CanValues == {"true", "false", "raise"}

\* function.can_execute(intent, game_state): "true", "false" or "raise";
\* can gives the answer of each caller-registered action
can_execute(function, intent, w, can) ==
    LET B(b) == IF b THEN "true" ELSE "false"
    IN CASE function.kind = "attack" -> B(AttackCanExecute(intent, w))
         [] function.kind = "search" -> B(intent.category = "search")
         [] function.kind = "dialogue" -> B(DialogueCanExecute(intent, w))
         [] function.kind = "trade" -> B(TradeCanExecute(intent, w))
         [] function.kind = "status" -> B(intent.category = "status")
         [] function.kind = "movement" -> B(intent.category = "move")
         [] function.kind = "interaction" -> B(intent.category = "interact")
         [] function.kind = "skill" -> B(intent.category = "skill")
         [] OTHER -> can[function.name]

\* function.execute(intent, game_state, transaction)
execute(function, intent, tx, inp) ==
    CASE function.kind = "attack" -> AttackExecute(intent, tx, inp.d6)
      [] function.kind = "search" -> SearchExecute(intent, tx, inp.d20)
      [] function.kind = "dialogue" -> DialogueExecute(intent, tx)
      [] function.kind = "trade" -> TradeExecute(intent, tx)
      [] function.kind = "status" -> StatusExecute(intent, tx)
      [] function.kind = "movement" -> MovementExecute(intent, tx)
      [] function.kind = "interaction" -> InteractionExecute(intent, tx, inp.d20)
      [] function.kind = "skill" -> SkillExecute(intent, tx, inp.d20, inp.d8)
      [] OTHER -> CustomExecute(inp.script, tx)

----------------------------------------------------------------------------
(* RealExecutionEngine.process *)

HistoryEntry(intent, function, result) ==
    [category |-> intent.category, function |-> function.name,
     success |-> result.success,
     dice_results |-> result.dice_results]

\* What one call of process leaves: whether an exception escaped to the
\* caller, the result returned, the world, the history, and observations
\* of the call: the path taken ("no_function", "predicate_false",
\* "executed", "fault" when execute raised, "fault_after" when the block
\* raised after execute had returned, "escaped"), the candidates and the
\* function chosen, the list the action put in its own result, the changes
\* passed to add_change and what a read yielded after each
Outcome(escaped, path, result, w, h, chosen, functions, tx) ==
    [escaped |-> escaped, path |-> path, result |-> result, world |-> w,
     history |-> h, chosen |-> chosen,
     candidates |-> [i \in 1..Len(functions) |-> functions[i].name],
     cans |-> <<>>, own |-> <<>>,
     added |-> tx.changes, reads |-> tx.reads, committed |-> tx.committed]

\* the body of the with block, after execute has returned result
ProcessAfterExecute(intent, function, functions, h, ex) ==
    LET c == commit(ex.tx)
        tx2 == IF ex.result.success THEN c.tx ELSE ex.tx
        result == IF ex.result.success
                  THEN [ex.result EXCEPT !.state_changes = c.changes]
                  ELSE ex.result
    IN IF IntentToDictRaises(intent)
       THEN \* raised while building the history entry: __exit__, except
            LET tx3 == TxExit(tx2, TRUE)
            IN [Outcome(FALSE, "fault_after",
                        ExecutionResult(FALSE, <<>>, <<>>, "error"),
                        tx3.world, h, function.name, functions, tx3)
                  EXCEPT !.own = ex.result.state_changes]
       ELSE LET tx3 == TxExit(tx2, FALSE)
            IN [Outcome(FALSE, "executed", result, tx3.world,
                        Append(h, HistoryEntry(intent, function, result)),
                        function.name, functions, tx3)
                  EXCEPT !.own = ex.result.state_changes]

\* process(intent, game_state); inp holds the dice and the behaviour of the
\* caller-registered actions in this call
process_body(reg, w, h, intent, inp) ==
    LET found == find_functions_by_intent(reg, intent)
        functions == found.functions
        notx == TxBegin(w)
    IN IF found.raised
       THEN Outcome(TRUE, "escaped", NoResult, w, h, "none", <<>>, notx)
       ELSE IF functions = <<>>
       THEN Outcome(FALSE, "no_function",
                    ExecutionResult(FALSE, <<>>, <<>>, "unsupported"),
                    w, h, "none", functions, notx)
       ELSE LET function == functions[1]
                can == can_execute(function, intent, w, inp.can)
            IN IF can = "raise"
               THEN Outcome(TRUE, "escaped", NoResult, w, h, function.name,
                            functions, notx)
               ELSE IF can = "false"
               THEN Outcome(FALSE, "predicate_false",
                            ExecutionResult(FALSE, <<>>, <<>>, "cannot_execute"),
                            w, h, function.name, functions, notx)
               ELSE LET ex == execute(function, intent, TxBegin(w), inp)
                    IN IF ex.raised
                       THEN LET tx3 == TxExit(ex.tx, TRUE)
                            IN Outcome(FALSE, "fault",
                                       ExecutionResult(FALSE, <<>>, <<>>, "error"),
                                       tx3.world, h, function.name, functions, tx3)
                       ELSE ProcessAfterExecute(intent, function, functions, h, ex)

\* process, with the answer each candidate's can_execute gives in the world
\* of the call
process(reg, w, h, intent, inp) ==
    LET functions == find_functions_by_intent(reg, intent).functions
    IN [process_body(reg, w, h, intent, inp) EXCEPT
          !.cans = [i \in 1..Len(functions) |->
                      can_execute(functions[i], intent, w, inp.can)]]

----------------------------------------------------------------------------
(* Inputs *)

CustomNames == {f.name : f \in CustomFunctions}

Intents ==
    {Intent(TRUE, "attack", "da", x) :
        x \in {<<"bu">>, Unspecified, EmptyString}}
    \cup {Intent(FALSE, "attack", "da", <<"bu">>),
          Intent(TRUE, "search", "sou", EmptyString),
          Intent(TRUE, "dialogue", "tan", Merchant),
          Intent(TRUE, "dialogue", "tan", Ghost),
          Intent(TRUE, "trade", "mai", <<"ren">>),
          Intent(TRUE, "trade", "mai", Goblin),
          Intent(TRUE, "status", "kan", EmptyString),
          Intent(TRUE, "move", "zou", Unspecified),
          Intent(TRUE, "move", "zou", <<"sen", "lin">>),
          Intent(TRUE, "interact", "mo", EmptyString),
          Intent(TRUE, "skill", "zhiliaoshu", PlayerTarget),
          Intent(TRUE, "skill", "huoqiushu", Goblin)}
    \cup {Intent(TRUE, "fly", "fei", EmptyString)}

D6 == 1..6
\* the d20 rolls around the difficulty classes, and the d8 rolls
D20 == {1, 9, 10, 11, 12, 20}
D8 == {1, 4, 8}

\* the names start-up code unregisters: a custom action or a built-in one
UnregisterNames == CustomNames \cup {"attack"}

NoCan == [n \in CustomNames |-> "false"]

\* the inputs one process call can meet: the answers of the candidates'
\* can_execute, the dice the chosen action rolls, the script it follows
InputsFor(reg, intent) ==
    LET found == find_functions_by_intent(reg, intent)
        functions == found.functions
        custom == {functions[i].name : i \in 1..Len(functions)} \cap CustomNames
        kind == IF functions = <<>> THEN "none" ELSE functions[1].kind
        cans == {c \in [CustomNames -> CanValues] :
                    \A n \in CustomNames \ custom : c[n] = "false"}
    IN UNION {
         {[can |-> c, script |-> sc, d6 |-> a, d20 |-> b, d8 |-> e] :
            sc \in IF kind = "custom" /\ c[functions[1].name] = "true"
                  THEN Scripts ELSE {NoScript},
            a \in IF kind = "attack" THEN D6 ELSE {1},
            b \in IF kind \in {"search", "interaction", "skill"} THEN D20 ELSE {1},
            e \in IF kind = "skill" /\ intent.action \in HealingSkills
                  THEN D8 ELSE {1}} : c \in cans}

----------------------------------------------------------------------------
(* The engine as a state machine *)

\* the worlds the engine is first called in: the constructor's, and one with
\* the player wounded and low on mana and the goblin wounded
InitWorlds ==
    {RealGameState(PlayerMaxHp, GoblinHp),
     [RealGameState(PlayerMaxHp - 5, 4) EXCEPT !.pmp = 5]}

NoIntent == Intent(TRUE, "none", "none", EmptyString)

NoLast ==
    [intent |-> NoIntent, pre |-> RealGameState(PlayerMaxHp, GoblinHp),
     escaped |-> FALSE, path |-> "none", result |-> NoResult,
     chosen |-> "none", candidates |-> <<>>, cans |-> <<>>, own |-> <<>>,
     added |-> <<>>, reads |-> <<>>, committed |-> FALSE, histBefore |-> 0,
     d20 |-> 0]

InitEngine ==
    /\ registry = BootRegistry
    /\ world \in InitWorlds
    /\ history = <<>>
    /\ calls = 0
    /\ regs = 0
    /\ last = NoLast

\* engine.process(intent, game_state)
Process(intent) ==
    /\ calls < MaxCalls
    /\ \E inp \in InputsFor(registry, intent) :
       \E o \in {process(registry, world, history, intent, inp)} :
         /\ world' = o.world
         /\ history' = o.history
         /\ last' = [intent |-> intent, pre |-> world,
                     escaped |-> o.escaped, path |-> o.path,
                     result |-> o.result, chosen |-> o.chosen,
                     candidates |-> o.candidates, cans |-> o.cans,
                     own |-> o.own,
                     added |-> o.added, reads |-> o.reads,
                     committed |-> o.committed,
                     histBefore |-> Len(history), d20 |-> inp.d20]
    /\ calls' = calls + 1
    /\ UNCHANGED <<registry, regs>>

\* engine.register_function(function), at start-up
Register(function) ==
    /\ regs < MaxRegs
    /\ calls = 0
    /\ registry' = register(registry, function)
    /\ regs' = regs + 1
    /\ UNCHANGED <<world, history, calls, last>>

\* engine.registry.unregister(name), at start-up
Unregister(name) ==
    /\ regs < MaxRegs
    /\ calls = 0
    /\ name \in DOMAIN registry.functions
    /\ registry' = unregister(registry, name)
    /\ regs' = regs + 1
    /\ UNCHANGED <<world, history, calls, last>>

----------------------------------------------------------------------------
(* Properties of process *)

Called == last.path # "none"

\* the world had changed in the course of the last call: some add_change
\* left the property it names with another value than before the call
WorldTouched ==
    \E i \in 1..Len(last.added) :
        last.reads[i] #
            ReadWorld(last.pre, last.added[i].target, last.added[i].property)

\* C1: when the action's execute has called add_change one or more times
\* and then raised, every field of the world (the player and every NPC)
\* is after the call what it was before the call.
C1_AtomicityOnFault ==
    (last.path = "fault" /\ Len(last.added) >= 1) => world = last.pre

\* C1's case: an execute that changed the world through add_change and
\* then raised
C1_Witness ==
    last.path = "fault" /\ Len(last.added) >= 1 /\ WorldTouched

\* C2: every call of process that returns success = false leaves the world
\* as it was before the call.
C2_FailureLeavesWorld ==
    (Called /\ ~last.escaped /\ ~last.result.success) => world = last.pre

\* C3: no exception escapes process; it always returns an ExecutionResult.
C3_NoEscape == Called => ~last.escaped

\* C4: for a call that returns success = true, result.state_changes is,
\* element for element and in order, the sequence of changes passed to
\* add_change in that call, whatever list the action put in its result.
C4_CommitCompleteness ==
    (Called /\ ~last.escaped /\ last.result.success)
        => last.result.state_changes = last.added

\* C4's case: a successful call whose action passed two changes to
\* add_change and put another list in its own result
C4_Witness ==
    /\ Called /\ ~last.escaped /\ last.result.success
    /\ Len(last.added) >= 2
    /\ last.own # last.added

\* C5: right after add_change(c), reading c.target's c.property in the
\* live world yields c.value, for any target and any property.
C5_ChangeApplied ==
    \A i \in 1..Len(last.added) : last.reads[i] = last.added[i].value

\* the first candidate, in registration order, whose can_execute is true
FirstApplicable ==
    IF \E i \in 1..Len(last.cans) : last.cans[i] = "true"
    THEN CHOOSE i \in 1..Len(last.cans) :
            last.cans[i] = "true" /\ \A j \in 1..(i - 1) : last.cans[j] # "true"
    ELSE 0

\* C6: process executes the first candidate, in registration order, whose
\* can_execute is true, and returns a resolution failure only when no
\* registered candidate passes.
C6_FirstMatch ==
    (Called /\ ~last.escaped) =>
        IF FirstApplicable = 0
        THEN last.path \in {"no_function", "predicate_false"}
        ELSE /\ last.path \in {"executed", "fault", "fault_after"}
             /\ last.chosen = last.candidates[FirstApplicable]

UnknownCategory(c) == c \notin KnownCategories \cup {"qita"}

\* C7: process with a category that is no known tag returns success = false
\* with a non-empty failure_reason, and the execution history is exactly
\* one entry longer than before the call.
C7_UnsupportedCategory ==
    (Called /\ UnknownCategory(last.intent.category)) =>
        /\ ~last.escaped
        /\ ~last.result.success
        /\ last.result.failure_reason # ""
        /\ Len(history) = last.histBefore + 1

\* C8: each call of process appends exactly one entry to the execution
\* history: after n calls the history holds n entries.
C8_OneEntryPerCall == Len(history) = calls

----------------------------------------------------------------------------
(* State managers: FillablePlayerStateManager and FillableNPCStateManager  *)
(* behind a StateManagerRegistry.  Python's False is the integer 0 and     *)
(* True the integer 1, and are written so.                                 *)

False == 0
True == 1

\* StateOperationRequest(target, property_path, operation, value)
StateOperationRequest(target, property_path, operation, value) ==
    [target |-> target, property_path |-> property_path,
     operation |-> operation, value |-> value]

\* StateValidationResult(valid, reason, side_effects)
StateValidationResult(valid, reason, side_effects) ==
    [valid |-> valid, reason |-> reason, side_effects |-> side_effects]

WarriorHp == 145
WarriorMp == 67
ForestGoblinHp == 30

\* the managers after construction: create_character of the default
\* template and _init_default_npcs (the forest goblin)
InitManagers ==
    [player |-> [current_hp |-> WarriorHp, current_mp |-> WarriorMp],
     npcs |-> [n \in {"forest_goblin"} |->
                  [hp |-> ForestGoblinHp, alive |-> True]]]

\* FillablePlayerStateManager.supports_target
PlayerSupportsTarget(target) == target \in {"player", "Player"}

\* FillableNPCStateManager.supports_target: a known NPC or a name that
\* starts with npc_
NPCSupportsTarget(m, target) ==
    target \in DOMAIN m.npcs \/ target \in {"npc_ghost"}

\* StateManagerRegistry.get_manager_for_target with the managers in the
\* order of _init_state_managers: "player", "npc", or "none"; the
\* environment manager, third, supports none of the targets used here
get_manager_for_target(m, target) ==
    IF PlayerSupportsTarget(target) THEN "player"
    ELSE IF NPCSupportsTarget(m, target) THEN "npc"
    ELSE "none"

\* the attribute a player property path names: hp and mp are the current
\* values, any other name must be a defined attribute (none is modelled)
PlayerAttribute(property_path) ==
    IF property_path \in {"hp", "current_hp"} THEN "current_hp"
    ELSE IF property_path \in {"mp", "current_mp"} THEN "current_mp"
    ELSE "undefined"

\* can_perform_operation that accepts every mp request
PlayerCanPerform_mp_unchecked(m, request) ==
    LET attr == PlayerAttribute(request.property_path)
    IN IF attr \in {"current_hp", "current_mp"}
       THEN StateValidationResult(TRUE, "", <<>>)
       ELSE StateValidationResult(FALSE, "unknown_attribute", <<>>)

\* FillablePlayerStateManager.can_perform_operation
PlayerCanPerform(m, request) ==
    LET attr == PlayerAttribute(request.property_path)
    IN IF attr = "current_hp"
       THEN IF request.operation = "subtract"
               /\ m.player.current_hp - request.value <= 0
            THEN StateValidationResult(TRUE, "hp_will_reach_zero",
                    <<StateOperationRequest("player", "alive", "set", False)>>)
            ELSE StateValidationResult(TRUE, "", <<>>)
       ELSE IF attr = "current_mp"
       THEN IF request.operation = "subtract"
               /\ m.player.current_mp < request.value
            THEN StateValidationResult(FALSE, "not_enough_mp", <<>>)
            ELSE StateValidationResult(TRUE, "", <<>>)
       ELSE StateValidationResult(FALSE, "unknown_attribute", <<>>)

\* CharacterAttributes.set_attribute for current_hp and current_mp, whose
\* definitions have min_value 0 and no max_value
set_attribute(player, key, value) ==
    [player EXCEPT ![key] = Max(0, value)]

\* CharacterAttributes.modify_attribute
modify_attribute(player, key, delta) ==
    set_attribute(player, key, player[key] + delta)

\* FillablePlayerStateManager.apply_operation: the state it leaves.  It
\* never returns: StateChange has no property_name, new_value or
\* change_reason field, so building the returned change raises TypeError,
\* in the try block and again in its except block.
PlayerApply(m, request) ==
    LET attr == PlayerAttribute(request.property_path)
    IN IF attr = "undefined" THEN m
       ELSE CASE request.operation = "set" ->
                   [m EXCEPT !.player = set_attribute(@, attr, request.value)]
              [] request.operation = "add" ->
                   [m EXCEPT !.player = modify_attribute(@, attr, request.value)]
              [] request.operation = "subtract" ->
                   [m EXCEPT !.player = modify_attribute(@, attr, 0 - request.value)]
              [] OTHER -> m

\* FillableNPCStateManager.can_perform_operation
NPCCanPerform(m, request) ==
    IF ~NPCSupportsTarget(m, request.target)
    THEN StateValidationResult(FALSE, "no_such_npc", <<>>)
    ELSE IF request.target \notin DOMAIN m.npcs
    THEN StateValidationResult(FALSE, "no_npc_data", <<>>)
    ELSE IF m.npcs[request.target].alive = False
            /\ request.property_path # "alive"
    THEN StateValidationResult(FALSE, "npc_dead", <<>>)
    ELSE StateValidationResult(TRUE, "", <<>>)

\* FillableNPCStateManager.apply_operation: the NPC data it leaves
NPCApplyData(npc_data, request) ==
    LET p == request.property_path
    IN CASE request.operation = "set" -> [npc_data EXCEPT ![p] = request.value]
         [] request.operation = "add" ->
              [npc_data EXCEPT ![p] = npc_data[p] + request.value]
         [] request.operation = "subtract" ->
              IF p = "hp" /\ npc_data[p] - request.value <= 0
              THEN [npc_data EXCEPT !.alive = False, !.hp = 0]
              ELSE [npc_data EXCEPT ![p] = npc_data[p] - request.value]
         [] OTHER -> npc_data

\* FillableNPCStateManager.apply_operation: the state it leaves
NPCApply(m, request) ==
    IF request.target \notin DOMAIN m.npcs THEN m
    ELSE [m EXCEPT !.npcs[request.target] = NPCApplyData(@, request)]

\* FillableNPCStateManager.apply_operation: the change it returns.  The
\* keyword construction raises TypeError inside the try block, and the
\* except block returns the positional
\* CoreStateChange(target, property_name, old_value, old_value, message).
NPCApplyChange(m, request) ==
    IF request.target \notin DOMAIN m.npcs
    THEN [target |-> request.target, action |-> request.property_path,
          property |-> None, value |-> None, old_value |-> "no_such_npc"]
    ELSE LET old_value == m.npcs[request.target][request.property_path]
         IN [target |-> request.target, action |-> request.property_path,
             property |-> old_value, value |-> old_value,
             old_value |-> "failed"]

\* manager.can_perform_operation(request) of the manager named
can_perform_operation(manager, m, request) ==
    IF manager = "player" THEN PlayerCanPerform(m, request)
    ELSE NPCCanPerform(m, request)

----------------------------------------------------------------------------
(* StateTransactionManager *)

\* add_operation that queues the request also when it is refused
add_operation_keeps_rejected(m, pend, request) ==
    LET manager == get_manager_for_target(m, request.target)
        validation == can_perform_operation(manager, m, request)
    IN IF manager = "none" \/ ~validation.valid
       THEN [ok |-> FALSE, pending |-> Append(pend, request)]
       ELSE [ok |-> TRUE,
             pending |-> Append(pend, request) \o validation.side_effects]

\* add_operation: ok is the value returned, pending the list it leaves
add_operation(m, pend, request) ==
    LET manager == get_manager_for_target(m, request.target)
        validation == can_perform_operation(manager, m, request)
    IN IF manager = "none" THEN [ok |-> FALSE, pending |-> pend]
       ELSE IF ~validation.valid THEN [ok |-> FALSE, pending |-> pend]
       ELSE [ok |-> TRUE,
             pending |-> Append(pend, request) \o validation.side_effects]

\* whether applying request in state m sets the target's alive to False
SetsAliveFalse(manager, m, request) ==
    /\ manager = "npc"
    /\ request.target \in DOMAIN m.npcs
    /\ \/ request.property_path = "alive" /\ request.operation = "set"
          /\ request.value = False
       \/ request.property_path = "hp" /\ request.operation = "subtract"
          /\ m.npcs[request.target].hp - request.value <= 0

\* whether request is an hp subtract that brings its target to 0 or below
CrossesZero(manager, m, request) ==
    /\ request.operation = "subtract"
    /\ \/ manager = "player"
          /\ PlayerAttribute(request.property_path) = "current_hp"
          /\ m.player.current_hp - request.value <= 0
       \/ manager = "npc" /\ request.target \in DOMAIN m.npcs
          /\ request.property_path = "hp"
          /\ m.npcs[request.target].hp - request.value <= 0

\* the for loop of execute_transaction from the i-th pending operation, run
\* carrying: the managers' state, applied_changes, the local changes, the
\* requests apply_operation was called with, the targets an hp subtract
\* brought to zero, the alive = False applications, whether it raised
RECURSIVE ExecuteLoop(_, _, _)
ExecuteLoop(pend, i, run) ==
    IF i > Len(pend) \/ run.raised THEN run
    ELSE LET request == pend[i]
             manager == get_manager_for_target(run.m, request.target)
             seen == [run EXCEPT
                        !.calls = Append(@, request),
                        !.crossed = IF CrossesZero(manager, run.m, request)
                                    THEN @ \cup {request.target} ELSE @,
                        !.aliveFalse = IF SetsAliveFalse(manager, run.m, request)
                                       THEN Append(@, request.target) ELSE @]
         IN IF manager = "none" THEN ExecuteLoop(pend, i + 1, run)
            ELSE IF manager = "player"
            THEN [seen EXCEPT !.m = PlayerApply(run.m, request),
                              !.raised = TRUE]
            ELSE ExecuteLoop(pend, i + 1,
                    [seen EXCEPT
                        !.m = NPCApply(run.m, request),
                        !.changes = Append(@, NPCApplyChange(run.m, request)),
                        !.applied = Append(@, NPCApplyChange(run.m, request))])

\* execute_transaction: the pair it returns is (ok, changes); rollback,
\* called when an apply_operation raised, undoes nothing
execute_transaction(m, pend, appl) ==
    LET run == ExecuteLoop(pend, 1,
                   [m |-> m, applied |-> appl, changes |-> <<>>,
                    calls |-> <<>>, crossed |-> {}, aliveFalse |-> <<>>,
                    raised |-> FALSE])
    IN [ok |-> ~run.raised,
        changes |-> IF run.raised THEN <<>> ELSE run.changes,
        m |-> run.m, applied |-> run.applied, calls |-> run.calls,
        crossed |-> run.crossed, aliveFalse |-> run.aliveFalse]

----------------------------------------------------------------------------
(* The state machine of the state managers *)

MaxPending == 2
MaxExecs == 2

\* the requests callers submit
Requests ==
    { StateOperationRequest("player", "hp", "subtract", 100),
      StateOperationRequest("player", "hp", "subtract", 200),
      StateOperationRequest("Player", "hp", "add", 10),
      StateOperationRequest("player", "mp", "subtract", 10),
      StateOperationRequest("player", "mp", "subtract", 70),
      StateOperationRequest("player", "alive", "set", False),
      StateOperationRequest("forest_goblin", "hp", "subtract", 20),
      StateOperationRequest("forest_goblin", "hp", "subtract", 40),
      StateOperationRequest("forest_goblin", "hp", "add", 5),
      StateOperationRequest("forest_goblin", "alive", "set", False),
      StateOperationRequest("npc_ghost", "hp", "subtract", 1),
      StateOperationRequest("nobody", "hp", "set", 1) }

\* what the last call of the transaction manager did, with the requests
\* validated since the last clear and the number of executions
NoSMCall ==
    [op |-> "none", ok |-> TRUE, changes |-> <<>>, pre |-> InitManagers,
     validated |-> {}, calls |-> <<>>, crossed |-> {}, aliveFalse |-> <<>>,
     execs |-> 0]

InitSM ==
    /\ sm = InitManagers
    /\ pending = <<>>
    /\ applied = <<>>
    /\ smlast = NoSMCall

\* StateTransactionManager.add_operation(request)
AddOperation(request) ==
    /\ Len(pending) < MaxPending
    /\ \E o \in {add_operation(sm, pending, request)} :
          /\ pending' = o.pending
          /\ smlast' = [smlast EXCEPT
                          !.op = "add", !.ok = o.ok, !.changes = <<>>,
                          !.pre = sm, !.calls = <<>>, !.crossed = {},
                          !.aliveFalse = <<>>,
                          !.validated = IF o.ok THEN @ \cup {request} ELSE @]
    /\ UNCHANGED <<sm, applied>>

\* StateTransactionManager.execute_transaction()
ExecuteTransaction ==
    /\ smlast.execs < MaxExecs
    /\ \E o \in {execute_transaction(sm, pending, applied)} :
          /\ sm' = o.m
          /\ applied' = o.applied
          /\ smlast' = [smlast EXCEPT
                          !.op = "execute", !.ok = o.ok,
                          !.changes = o.changes, !.pre = sm,
                          !.calls = o.calls, !.crossed = o.crossed,
                          !.aliveFalse = o.aliveFalse, !.execs = @ + 1]
    /\ UNCHANGED pending

\* StateTransactionManager.clear()
Clear ==
    /\ pending' = <<>>
    /\ applied' = <<>>
    /\ smlast' = [smlast EXCEPT
                    !.op = "clear", !.ok = TRUE, !.changes = <<>>,
                    !.pre = sm, !.calls = <<>>, !.crossed = {},
                    !.aliveFalse = <<>>, !.validated = {}]
    /\ UNCHANGED sm

----------------------------------------------------------------------------
(* The environment manager's map: GameMap, src/Agent/data/map_data.py *)

MaxMapEdits == 1

\* LocationConnection(direction, target_location): is_blocked is False
LocationConnection(target_location) ==
    [target_location |-> target_location, is_blocked |-> FALSE]

\* GameMap.__init__: the locations of _init_default_locations with the
\* connections of _setup_default_connections, in the order they are added
StarterMap ==
    [village_center |->
        <<LocationConnection("village_tavern"),
          LocationConnection("village_weapon_shop"),
          LocationConnection("village_outskirts")>>,
     village_tavern |-> <<LocationConnection("village_center")>>,
     village_weapon_shop |-> <<LocationConnection("village_center")>>,
     village_outskirts |->
        <<LocationConnection("village_center"),
          LocationConnection("dark_forest"),
          LocationConnection("mountain_path")>>,
     dark_forest |->
        <<LocationConnection("village_outskirts"),
          LocationConnection("abandoned_cave")>>,
     mountain_path |-> <<LocationConnection("village_outskirts")>>,
     abandoned_cave |-> <<LocationConnection("dark_forest")>>]

\* GameMap.add_connection: refused when from_location is no location; the
\* target is not looked up
add_connection(map, from_location, to_location) ==
    IF from_location \notin DOMAIN map THEN map
    ELSE [map EXCEPT ![from_location] =
            Append(@, LocationConnection(to_location))]

\* a scan of the connections that goes on after it has met the end, and
\* so returns the last connection that leads there and queues the others
RECURSIVE ScanConnections_last_first(_, _, _, _, _, _)
ScanConnections_last_first(connections, i, end, path, queue, visited) ==
    IF i > Len(connections) THEN [found |-> FALSE, path |-> <<>>, queue |-> queue]
    ELSE LET connection == connections[i]
             target == connection.target_location
             later == ScanConnections_last_first(
                          connections, i + 1, end, path,
                          IF ~connection.is_blocked /\ target \notin visited
                          THEN <<[node |-> target,
                                  path |-> Append(path, target)]>> \o queue
                          ELSE queue,
                          visited)
         IN IF later.found THEN later
            ELSE IF ~connection.is_blocked /\ target = end
            THEN [found |-> TRUE, path |-> Append(path, target), queue |-> queue]
            ELSE later

\* the for loop of find_path over the connections of the current location,
\* from the i-th: the path found, or the queue it leaves
RECURSIVE ScanConnections(_, _, _, _, _, _)
ScanConnections(connections, i, end, path, queue, visited) ==
    IF i > Len(connections) THEN [found |-> FALSE, path |-> <<>>, queue |-> queue]
    ELSE LET connection == connections[i]
             target == connection.target_location
         IN IF connection.is_blocked
            THEN ScanConnections(connections, i + 1, end, path, queue, visited)
            ELSE IF target = end
            THEN [found |-> TRUE, path |-> Append(path, target), queue |-> queue]
            ELSE ScanConnections(connections, i + 1, end, path,
                    IF target \notin visited
                    THEN Append(queue, [node |-> target,
                                        path |-> Append(path, target)])
                    ELSE queue,
                    visited)

\* find_path that walks through blocked connections as well
RECURSIVE SearchLoop_ignores_blocked(_, _, _, _)
SearchLoop_ignores_blocked(map, end, queue, visited) ==
    IF queue = <<>> THEN <<>>
    ELSE LET current == Head(queue).node
             path == Head(queue).path
             rest == Tail(queue)
         IN IF current \in visited
            THEN SearchLoop_ignores_blocked(map, end, rest, visited)
            ELSE IF current \notin DOMAIN map
            THEN SearchLoop_ignores_blocked(map, end, rest,
                                            visited \cup {current})
            ELSE LET open == [i \in 1..Len(map[current]) |->
                                [map[current][i] EXCEPT !.is_blocked = FALSE]]
                     scan == ScanConnections(open, 1, end, path, rest,
                                             visited \cup {current})
                 IN IF scan.found THEN scan.path
                    ELSE SearchLoop_ignores_blocked(map, end, scan.queue,
                                                    visited \cup {current})

\* the while loop of find_path: queue of (location, path so far), visited
RECURSIVE SearchLoop(_, _, _, _)
SearchLoop(map, end, queue, visited) ==
    IF queue = <<>> THEN <<>>
    ELSE LET current == Head(queue).node
             path == Head(queue).path
             rest == Tail(queue)
         IN IF current \in visited
            THEN SearchLoop(map, end, rest, visited)
            ELSE IF current \notin DOMAIN map
            THEN SearchLoop(map, end, rest, visited \cup {current})
            ELSE LET scan == ScanConnections(map[current], 1, end, path, rest,
                                             visited \cup {current})
                 IN IF scan.found THEN scan.path
                    ELSE SearchLoop(map, end, scan.queue,
                                    visited \cup {current})

\* GameMap.find_path(start, end)
find_path(map, start, end) ==
    IF start = end THEN <<start>>
    ELSE SearchLoop(map, end, <<[node |-> start, path |-> <<start>>]>>, {})

\* FillableEnvironmentStateManager.check_accessibility
check_accessibility(e, from_location, to_location) ==
    Len(find_path(e.game_map, from_location, to_location)) > 0

\* the names callers ask about: locations of the map and names that are not
LocationNames == DOMAIN StarterMap \cup {"lost_mine", "nowhere"}

NoProbe == [op |-> "none"]

InitEnv ==
    /\ env = [game_map |-> StarterMap, edits |-> 0]
    /\ probe = NoProbe

\* game_map.add_connection(from_location, direction, to_location)
AddConnection(from_location, to_location) ==
    /\ env.edits < MaxMapEdits
    /\ env' = [game_map |-> add_connection(env.game_map, from_location,
                                           to_location),
               edits |-> env.edits + 1]
    /\ probe' = NoProbe

\* a connection of the map becomes blocked: connection.is_blocked = True
BlockConnection(location, i) ==
    /\ env.edits < MaxMapEdits
    /\ location \in DOMAIN env.game_map
    /\ i \in 1..Len(env.game_map[location])
    /\ ~env.game_map[location][i].is_blocked
    /\ env' = [game_map |-> [env.game_map EXCEPT
                                ![location][i].is_blocked = TRUE],
               edits |-> env.edits + 1]
    /\ probe' = NoProbe

\* env_manager.check_accessibility(from_location, to_location)
CheckAccessibility(from_location, to_location) ==
    /\ probe' = [op |-> "check_accessibility",
                 from_location |-> from_location,
                 to_location |-> to_location,
                 path |-> find_path(env.game_map, from_location, to_location),
                 result |-> check_accessibility(env, from_location,
                                                to_location)]
    /\ UNCHANGED env

----------------------------------------------------------------------------
(* The read operations of the state managers and of the built-in actions  *)

\* FillablePlayerStateManager.get_current_value: character.get_attribute
\* answers 0 for a key the character does not hold, and "hp" is no such key
PlayerGetCurrentValue(m, target, property_path) ==
    IF ~PlayerSupportsTarget(target) THEN None
    ELSE IF property_path \in DOMAIN m.player THEN m.player[property_path]
    ELSE 0

\* FillableNPCStateManager.get_current_value
NPCGetCurrentValue(m, target, property_path) ==
    IF target \notin DOMAIN m.npcs THEN None
    ELSE IF property_path \in DOMAIN m.npcs[target]
    THEN m.npcs[target][property_path]
    ELSE None

\* FillableEnvironmentStateManager.supports_target, for the targets that
\* are no environment object
EnvSupportsTarget(e, target) ==
    target = "environment" \/ target \in DOMAIN e.game_map

\* FillableEnvironmentStateManager.can_perform_operation, for the targets
\* that are no environment object
EnvCanPerform(e, request) ==
    IF request.target = "environment"
    THEN StateValidationResult(TRUE, "", <<>>)
    ELSE StateValidationResult(FALSE, "no_such_environment_target", <<>>)

\* FillableEnvironmentStateManager.get_current_value of a location, or of
\* a name that is nothing: of a location, the attribute of that name
EnvGetCurrentValue(e, target, property_path) ==
    IF target \in DOMAIN e.game_map /\ property_path = "connections"
    THEN e.game_map[target]
    ELSE None

ManagerNames == {"player", "npc", "environment"}

\* manager.get_current_value(target, property_path) of the manager named
get_current_value(manager, m, e, target, property_path) ==
    CASE manager = "player" -> PlayerGetCurrentValue(m, target, property_path)
      [] manager = "npc" -> NPCGetCurrentValue(m, target, property_path)
      [] OTHER -> EnvGetCurrentValue(e, target, property_path)

\* manager.supports_target(target) of the manager named
supports_target(manager, m, e, target) ==
    CASE manager = "player" -> PlayerSupportsTarget(target)
      [] manager = "npc" -> NPCSupportsTarget(m, target)
      [] OTHER -> EnvSupportsTarget(e, target)

\* manager.can_perform_operation(request) of the manager named, the
\* environment manager included
validate(manager, m, e, request) ==
    IF manager = "environment" THEN EnvCanPerform(e, request)
    ELSE can_perform_operation(manager, m, request)

\* the managers in the order _init_state_managers registers them: the
\* order of the registry's dict
ManagerOrder == <<"player", "npc", "environment">>

\* a routing that stops after the NPC manager
RECURSIVE ManagerFrom_two_managers(_, _, _, _)
ManagerFrom_two_managers(i, m, e, target) ==
    IF i > 2 THEN "none"
    ELSE IF supports_target(ManagerOrder[i], m, e, target)
    THEN ManagerOrder[i]
    ELSE ManagerFrom_two_managers(i + 1, m, e, target)

\* the for loop of StateManagerRegistry.get_manager_for_target, from the
\* i-th manager: the first that supports the target, "none" for None
RECURSIVE ManagerFrom(_, _, _, _)
ManagerFrom(i, m, e, target) ==
    IF i > Len(ManagerOrder) THEN "none"
    ELSE IF supports_target(ManagerOrder[i], m, e, target)
    THEN ManagerOrder[i]
    ELSE ManagerFrom(i + 1, m, e, target)

\* the targets the registry is asked to route
RoutedTargets ==
    {"player", "Player", "forest_goblin", "npc_ghost", "environment",
     "dark_forest", "village_center", "nobody"}

\* state_registry.get_manager_for_target(target)
GetManagerForTarget(target) ==
    /\ probe' = [op |-> "get_manager_for_target", target |-> target,
                 result |-> ManagerFrom(1, sm, env, target)]
    /\ UNCHANGED env

\* what the reads are asked about
ReadTargets == {"player", "forest_goblin", "nobody", "dark_forest"}
ReadPaths == {"hp", "current_mp", "connections"}
ReadRequests ==
    { StateOperationRequest("player", "hp", "subtract", 200),
      StateOperationRequest("player", "mp", "subtract", 60),
      StateOperationRequest("forest_goblin", "hp", "subtract", 20),
      StateOperationRequest("forest_goblin", "hp", "subtract", 40),
      StateOperationRequest("environment", "weather", "set", 1) }
ReadIntents ==
    { Intent(TRUE, "attack", "da", <<"bu">>),
      Intent(TRUE, "dialogue", "tan", Merchant),
      Intent(TRUE, "skill", "huoqiushu", Goblin) }

\* the requests that change what the reads of the managers look at
WriteRequests ==
    { StateOperationRequest("player", "mp", "subtract", 10),
      StateOperationRequest("forest_goblin", "hp", "subtract", 40) }

ReadOps == {"get_current_value", "supports_target", "can_perform_operation",
            "can_execute"}

\* a get_current_value that spends the mana it reads
GetCurrentValue_consumes(manager, target, property_path) ==
    /\ probe' = [op |-> "get_current_value",
                 args |-> <<manager, target, property_path>>,
                 value |-> get_current_value(manager, sm, env, target,
                                             property_path)]
    /\ sm' = IF manager = "player" /\ property_path = "current_mp"
             THEN [sm EXCEPT !.player.current_mp = 0] ELSE sm
    /\ UNCHANGED <<env, engineVars, pending, applied, smlast, txVars, bridgeVars>>

\* manager.get_current_value(target, property_path)
GetCurrentValue(manager, target, property_path) ==
    /\ probe' = [op |-> "get_current_value",
                 args |-> <<manager, target, property_path>>,
                 value |-> get_current_value(manager, sm, env, target,
                                             property_path)]
    /\ UNCHANGED <<env, engineVars, smVars, txVars, bridgeVars>>

\* manager.supports_target(target)
SupportsTarget(manager, target) ==
    /\ probe' = [op |-> "supports_target", args |-> <<manager, target>>,
                 value |-> supports_target(manager, sm, env, target)]
    /\ UNCHANGED <<env, engineVars, smVars, txVars, bridgeVars>>

\* manager.can_perform_operation(request)
CanPerformOperation(manager, request) ==
    /\ probe' = [op |-> "can_perform_operation",
                 args |-> <<manager, request>>,
                 value |-> validate(manager, sm, env, request)]
    /\ UNCHANGED <<env, engineVars, smVars, txVars, bridgeVars>>

\* function.can_execute(intent, game_state) of a built-in action
CanExecute(function, intent) ==
    /\ probe' = [op |-> "can_execute", args |-> <<function.name, intent>>,
                 value |-> can_execute(function, intent, world, NoCan)]
    /\ UNCHANGED <<env, engineVars, smVars, txVars, bridgeVars>>

----------------------------------------------------------------------------
(* A transaction driven step by step, as an action's execute may do with  *)
(* the transaction it is handed                                            *)

\* no transaction is open
NoTx ==
    [open |-> FALSE, t |-> TxBegin(RealGameState(PlayerMaxHp, GoblinHp)),
     returned |-> <<>>, atCommit |-> RealGameState(PlayerMaxHp, GoblinHp),
     afterCommit |-> "none"]

InitTx == txn = NoTx

\* with RealStateTransaction(game_state) as transaction
TxOpen ==
    /\ ~txn.open
    /\ txn = NoTx
    /\ txn' = [NoTx EXCEPT !.open = TRUE, !.t = TxBegin(world)]
    /\ UNCHANGED world

\* transaction.add_change(change)
TxAddChange(change) ==
    /\ txn.open
    /\ Len(txn.t.changes) < MaxAdds
    /\ \E t2 \in {add_change(txn.t, change)} :
          /\ txn' = [txn EXCEPT !.t = t2,
                              !.afterCommit = IF txn.t.committed
                                              THEN "add_change" ELSE @]
          /\ world' = t2.world

\* transaction.commit()
TxCommit ==
    /\ txn.open
    /\ ~txn.t.committed
    /\ \E c \in {commit(txn.t)} :
          txn' = [txn EXCEPT !.t = c.tx, !.returned = c.changes,
                           !.atCommit = world]
    /\ UNCHANGED world

\* transaction.rollback(), called explicitly
TxRollback ==
    /\ txn.open
    /\ \E t2 \in {rollback(txn.t)} :
          /\ txn' = [txn EXCEPT !.t = t2,
                              !.afterCommit = IF txn.t.committed
                                              THEN "rollback" ELSE @]
          /\ world' = t2.world

\* leaving the with block, normally or by an exception
TxLeave(raised) ==
    /\ txn.open
    /\ \E t2 \in {TxExit(txn.t, raised)} :
          /\ txn' = [txn EXCEPT !.t = t2, !.open = FALSE,
                              !.afterCommit = IF txn.t.committed
                                              THEN "exit" ELSE @]
          /\ world' = t2.world

----------------------------------------------------------------------------
(* RealModelBridge: classify, execute, generate *)

\* what the model client answers to the intent-classification request: a
\* JSON object naming an intent, JSON that is no object, text that is no
\* JSON, or no answer because the request raised
Responses ==
    {[kind |-> "object", intent |-> i] : i \in {j \in Intents : j.typeOk}}
    \cup {[kind |-> k, intent |-> NoIntent] :
             k \in {"json_no_object", "not_json", "request_raises"}}

\* classify_intent: the request, the call-history entry, then the parsing;
\* text that is no JSON falls back to an intent of category 'other', and
\* JSON that is no object raises AttributeError at intent_data.get
classify_intent(call_history, response) ==
    IF response.kind = "request_raises"
    THEN [raised |-> TRUE, call_history |-> call_history, intent |-> NoIntent]
    ELSE LET recorded == Append(call_history, "Intent Classification")
         IN CASE response.kind = "object" ->
                   [raised |-> FALSE, call_history |-> recorded,
                    intent |-> response.intent]
              [] response.kind = "not_json" ->
                   [raised |-> FALSE, call_history |-> recorded,
                    intent |-> Intent(TRUE, "qita", "input", <<"wei", "zhi">>)]
              [] OTHER ->
                   [raised |-> TRUE, call_history |-> recorded,
                    intent |-> NoIntent]

\* execute_intent: engine.process, then the call-history entry; an
\* exception that escapes process leaves no entry
execute_intent(call_history, o) ==
    IF o.escaped
    THEN [raised |-> TRUE, call_history |-> call_history]
    ELSE [raised |-> FALSE,
          call_history |-> Append(call_history, "Intent Execution")]

\* generate_scene: its first statement reads execution_result.metadata, an
\* attribute ExecutionResult does not have, and raises AttributeError
generate_scene(call_history, execution_result) ==
    [raised |-> TRUE, call_history |-> call_history]

InitBridge ==
    bridge = [call_history |-> <<>>, before |-> 0, inputs |-> 0,
              reached |-> "none"]

\* model_bridge.process_user_input(user_input), response the model
\* client's answer to the classification request
ProcessUserInput(response) ==
    /\ bridge.inputs < MaxCalls
    /\ \E c \in {classify_intent(bridge.call_history, response)} :
          IF c.raised
          THEN /\ bridge' = [call_history |-> c.call_history,
                             before |-> Len(bridge.call_history),
                             inputs |-> bridge.inputs + 1,
                             reached |-> "classify"]
               /\ UNCHANGED engineVars
          ELSE \E inp \in InputsFor(registry, c.intent) :
               \E o \in {process(registry, world, history, c.intent, inp)} :
               \E x \in {execute_intent(c.call_history, o)} :
               \E g \in {generate_scene(x.call_history, o.result)} :
                 /\ world' = o.world
                 /\ history' = o.history
                 /\ last' = [intent |-> c.intent, pre |-> world,
                             escaped |-> o.escaped, path |-> o.path,
                             result |-> o.result, chosen |-> o.chosen,
                             candidates |-> o.candidates, cans |-> o.cans,
                             own |-> o.own,
                             added |-> o.added, reads |-> o.reads,
                             committed |-> o.committed,
                             histBefore |-> Len(history), d20 |-> inp.d20]
                 /\ calls' = calls + 1
                 /\ bridge' = [call_history |->
                                  IF x.raised THEN x.call_history
                                  ELSE g.call_history,
                               before |-> Len(bridge.call_history),
                               inputs |-> bridge.inputs + 1,
                               reached |-> IF x.raised THEN "execute"
                                           ELSE IF g.raised THEN "generate"
                                           ELSE "done"]
                 /\ UNCHANGED <<registry, regs>>

\* RealWorldState.add_npc: npcs is a dict keyed by name, so an NPC of a
\* name already there takes that one's place and a new name goes last
add_npc(w, npc) ==
    IF \E i \in 1..Len(w.npcs) : w.npcs[i].name = npc.name
    THEN [w EXCEPT !.npcs = [i \in 1..Len(w.npcs) |->
                                IF w.npcs[i].name = npc.name THEN npc
                                ELSE w.npcs[i]]]
    ELSE [w EXCEPT !.npcs = Append(@, npc)]

\* a second goblin the game adds to the world, defeated or not
GoblinChief == <<"ge", "bu", "lin", "wang">>
ExtraNPCs == {RealNPC(GoblinChief, "enemy", hp) : hp \in {0, 6, 20}}

\* game_state.world.add_npc(npc), before the engine is called
AddNpc(npc) ==
    /\ calls = 0
    /\ world' = add_npc(world, npc)
    /\ UNCHANGED <<registry, history, calls, regs, last>>

\* the attacks of the player, and the worlds they are made in: the goblin
\* unharmed, wounded, or defeated
AttackIntents ==
    {Intent(TRUE, "attack", "da", x) :
        x \in {<<"bu">>, <<"Ge">>, GoblinChief, <<"wang">>, Merchant}}

InitAttack ==
    /\ registry = BootRegistry
    /\ world \in {RealGameState(PlayerMaxHp, g) : g \in {0, 4, GoblinHp}}
    /\ history = <<>>
    /\ calls = 0
    /\ regs = 0
    /\ last = NoLast
    /\ InitSM /\ InitEnv /\ InitTx /\ InitBridge

NextAttack ==
    \/ \E npc \in ExtraNPCs :
          AddNpc(npc) /\ UNCHANGED <<smVars, envVars, txVars, bridgeVars>>
    \/ \E intent \in AttackIntents :
          Process(intent) /\ UNCHANGED <<smVars, envVars, txVars, bridgeVars>>

SpecAttack == InitAttack /\ [][NextAttack]_vars

Init == InitEngine /\ InitSM /\ InitEnv /\ InitTx /\ InitBridge

Next ==
    \/ \E intent \in Intents : Process(intent) /\ UNCHANGED <<smVars, envVars, txVars, bridgeVars>>
    \/ \E f \in CustomFunctions : Register(f) /\ UNCHANGED <<smVars, envVars, txVars, bridgeVars>>
    \/ \E name \in UnregisterNames : Unregister(name) /\ UNCHANGED <<smVars, envVars, txVars, bridgeVars>>

Spec == Init /\ [][Next]_vars

NextSM ==
    \/ \E request \in Requests : AddOperation(request) /\ UNCHANGED <<engineVars, envVars, txVars, bridgeVars>>
    \/ ExecuteTransaction /\ UNCHANGED <<engineVars, envVars, txVars, bridgeVars>>
    \/ Clear /\ UNCHANGED <<engineVars, envVars, txVars, bridgeVars>>

\* the state managers are built beside a freshly built engine and game state
InitFresh ==
    /\ InitSM
    /\ InitEnv
    /\ InitTx
    /\ InitBridge
    /\ registry = BootRegistry
    /\ world = RealGameState(PlayerMaxHp, GoblinHp)
    /\ history = <<>>
    /\ calls = 0
    /\ regs = 0
    /\ last = NoLast

SpecSM == InitFresh /\ [][NextSM]_vars

\* the requests callers submit on the player's mp and on the forest
\* goblin: subtracts that fit one by one, a set of hp, as
\* modify_npc_attribute makes it, an add and the alive flag
OpRequests ==
    { StateOperationRequest("player", "mp", "subtract", 40),
      StateOperationRequest("player", "mp", "subtract", 30),
      StateOperationRequest("forest_goblin", "hp", "set", 0),
      StateOperationRequest("forest_goblin", "hp", "set", 0 - 5),
      StateOperationRequest("forest_goblin", "hp", "subtract", 40),
      StateOperationRequest("forest_goblin", "hp", "add", 5),
      StateOperationRequest("forest_goblin", "alive", "set", False) }

NextOps ==
    \/ \E request \in OpRequests : AddOperation(request) /\ UNCHANGED <<engineVars, envVars, txVars, bridgeVars>>
    \/ ExecuteTransaction /\ UNCHANGED <<engineVars, envVars, txVars, bridgeVars>>
    \/ Clear /\ UNCHANGED <<engineVars, envVars, txVars, bridgeVars>>

SpecOps == InitFresh /\ [][NextOps]_vars

\* the connections callers add: from a location or from a name that is
\* none, to a location, to the location itself, or to a name that is none
AddedConnections ==
    {<<"abandoned_cave", "lost_mine">>, <<"abandoned_cave", "abandoned_cave">>,
     <<"mountain_path", "abandoned_cave">>, <<"nowhere", "village_center">>}

NextMap ==
    \/ \E c \in AddedConnections :
          AddConnection(c[1], c[2]) /\ UNCHANGED <<engineVars, smVars, txVars, bridgeVars>>
    \/ \E location \in DOMAIN StarterMap, i \in 1..3 :
          BlockConnection(location, i) /\ UNCHANGED <<engineVars, smVars, txVars, bridgeVars>>
    \/ \E from_location \in LocationNames, to_location \in LocationNames :
          CheckAccessibility(from_location, to_location)
          /\ UNCHANGED <<engineVars, smVars, txVars, bridgeVars>>
    \/ \E target \in RoutedTargets :
          GetManagerForTarget(target)
          /\ UNCHANGED <<engineVars, smVars, txVars, bridgeVars>>

SpecMap == InitFresh /\ [][NextMap]_vars

\* the functions start-up code registers when the registry is looked at
\* alone: the caller-registered ones, two whose metadata declares no
\* category, and two that take the name of a built-in action, one in its
\* category and one in another
RegistryFunctions ==
    CustomFunctions
    \cup {GameFunction("custom_c", NoCategory, "custom"),
          GameFunction("custom_d", NoCategory, "custom"),
          GameFunction("attack", "attack", "custom"),
          GameFunction("search", "qita", "custom")}

RegistryNames ==
    {f.name : f \in RegistryFunctions}
    \cup {DefaultFunctions[i].name : i \in 1..Len(DefaultFunctions)}

\* the categories intents carry: the known tags, the two spellings of
\* 'other', and a tag that is none of them
IntentCategories == KnownCategories \cup {"qita", "other", "fly"}

\* registry.find_functions_by_intent(intent), for an intent of the category
FindFunctions(category) ==
    /\ \E found \in {find_functions_by_intent(
                        registry, Intent(TRUE, category, "none", EmptyString))} :
          probe' = [op |-> "find", category |-> category,
                    raised |-> found.raised,
                    names |-> [i \in 1..Len(found.functions) |->
                                  found.functions[i].name]]
    /\ UNCHANGED <<env, engineVars>>

NextRegistry ==
    \/ \E f \in RegistryFunctions :
          Register(f) /\ probe' = NoProbe
          /\ UNCHANGED <<env, smVars, txVars, bridgeVars>>
    \/ \E name \in RegistryNames :
          Unregister(name) /\ probe' = NoProbe
          /\ UNCHANGED <<env, smVars, txVars, bridgeVars>>
    \/ \E category \in IntentCategories :
          FindFunctions(category) /\ UNCHANGED <<smVars, txVars, bridgeVars>>

SpecRegistry == InitFresh /\ [][NextRegistry]_vars

\* reads of the managers and of the built-in actions, in a fresh game or
\* in one under way, between the transactions that change the managers
NextRead ==
    \/ \E request \in WriteRequests :
          AddOperation(request) /\ probe' = NoProbe
          /\ UNCHANGED <<env, engineVars, txVars, bridgeVars>>
    \/ ExecuteTransaction /\ probe' = NoProbe
       /\ UNCHANGED <<env, engineVars, txVars, bridgeVars>>
    \/ \E manager \in ManagerNames, target \in ReadTargets,
          property_path \in ReadPaths :
          GetCurrentValue(manager, target, property_path)
    \/ \E manager \in ManagerNames, target \in ReadTargets :
          SupportsTarget(manager, target)
    \/ \E manager \in ManagerNames, request \in ReadRequests :
          CanPerformOperation(manager, request)
    \/ \E i \in 1..Len(DefaultFunctions), intent \in ReadIntents :
          CanExecute(DefaultFunctions[i], intent)

SpecRead == Init /\ [][NextRead]_vars

\* IntentType: the value of each member
IntentTypeValue(member) ==
    CASE member = "EXECUTION" -> "zhixing"
      [] member = "QUERY" -> "chaxun"
      [] member = "EXPLORATION" -> "tansuo"
      [] member = "REASONING" -> "tuili"

IntentTypes == {"EXECUTION", "QUERY", "EXPLORATION", "REASONING"}

\* IntentType(value): the member of that value
IntentTypeOf(value) ==
    CHOOSE member \in IntentTypes : IntentTypeValue(member) = value

\* the intents serialized: every type, with and without parameters,
\* confidence in tenths
SerializedIntents ==
    [type : IntentTypes, category : {"attack", "search", "qita"},
     action : {"da", ""}, target : {Goblin, EmptyString},
     parameters : {<<>>, <<"changjian">>}, confidence : {0, 8, 10}]

\* Intent.to_dict
to_dict(intent) ==
    [type |-> IntentTypeValue(intent.type), category |-> intent.category,
     action |-> intent.action, target |-> intent.target,
     parameters |-> intent.parameters, confidence |-> intent.confidence]

\* a from_dict that takes the default confidence whatever the dict holds
from_dict_default_confidence(data) ==
    [type |-> IntentTypeOf(data.type), category |-> data.category,
     action |-> data.action, target |-> data.target,
     parameters |-> data.parameters, confidence |-> 10]

\* Intent.from_dict: the dict written by to_dict holds every key, so the
\* defaults of data.get are not taken
from_dict(data) ==
    [type |-> IntentTypeOf(data.type), category |-> data.category,
     action |-> data.action, target |-> data.target,
     parameters |-> data.parameters, confidence |-> data.confidence]

\* an Intent is built
MakeIntent(intent) ==
    /\ probe' = [op |-> "intent", intent |-> intent]
    /\ UNCHANGED env

\* intent.to_dict()
ToDict ==
    /\ probe.op = "intent"
    /\ probe' = [op |-> "to_dict", intent |-> probe.intent,
                 data |-> to_dict(probe.intent)]
    /\ UNCHANGED env

\* Intent.from_dict(data)
FromDict ==
    /\ probe.op = "to_dict"
    /\ probe' = [op |-> "from_dict", intent |-> probe.intent,
                 data |-> probe.data, restored |-> from_dict(probe.data)]
    /\ UNCHANGED env

NextIntent ==
    \/ \E intent \in SerializedIntents :
          MakeIntent(intent)
          /\ UNCHANGED <<engineVars, smVars, txVars, bridgeVars>>
    \/ ToDict /\ UNCHANGED <<engineVars, smVars, txVars, bridgeVars>>
    \/ FromDict /\ UNCHANGED <<engineVars, smVars, txVars, bridgeVars>>

SpecIntent == InitFresh /\ [][NextIntent]_vars

NextBridge ==
    \/ \E f \in CustomFunctions :
          Register(f) /\ UNCHANGED <<smVars, envVars, txVars, bridgeVars>>
    \/ \E response \in Responses :
          ProcessUserInput(response) /\ UNCHANGED <<smVars, envVars, txVars>>

SpecBridge == InitFresh /\ [][NextBridge]_vars

txFrame == <<registry, history, calls, regs, last, smVars, envVars, bridgeVars>>

NextTx ==
    \/ TxOpen /\ UNCHANGED txFrame
    \/ \E change \in ChangePool : TxAddChange(change) /\ UNCHANGED txFrame
    \/ TxCommit /\ UNCHANGED txFrame
    \/ TxRollback /\ UNCHANGED txFrame
    \/ \E raised \in BOOLEAN : TxLeave(raised) /\ UNCHANGED txFrame

SpecTx == Init /\ [][NextTx]_vars

----------------------------------------------------------------------------
(* Properties of the state managers *)

\* the number of alive = False applications to target in the last execution
AliveFalseCount(target) ==
    Cardinality({i \in 1..Len(smlast.aliveFalse) : smlast.aliveFalse[i] = target})

\* C9: when an hp subtraction brings its target to zero or below, exactly
\* one alive = false operation is applied to that target by the execution
C9_DeathCascadeOnce ==
    smlast.op = "execute" =>
        \A target \in smlast.crossed : AliveFalseCount(target) = 1

\* C10: every operation the transaction manager holds or applies, side
\* effects included, went through can_perform_operation and was accepted
C10_SideEffectsValidated ==
    /\ \A i \in 1..Len(pending) : pending[i] \in smlast.validated
    /\ \A i \in 1..Len(smlast.calls) : smlast.calls[i] \in smlast.validated

----------------------------------------------------------------------------
(* Scenarios of the engine *)

\* the index, in the world before the last call, of the NPC the intent's
\* target names (0 if none)
TargetBefore ==
    FirstNpc({i \in 1..Len(last.pre.npcs) :
                 NameMatches(last.intent.target, last.pre.npcs[i])})

\* the last call was a well-formed attack on a live NPC, executed by the
\* built-in attack, whose damage total reached the NPC's hp
AttackDefeatsCase ==
    /\ Called /\ last.path = "executed" /\ last.chosen = "attack"
    /\ last.intent.typeOk
    /\ TargetBefore # 0
    /\ last.pre.npcs[TargetBefore].hp > 0
    /\ Len(last.result.dice_results) = 1
    /\ last.pre.npcs[TargetBefore].hp
          <= last.result.dice_results[1].result
             + last.result.dice_results[1].modifier

\* C11: an attack whose damage total reaches a live NPC's hp succeeds, its
\* state_changes hold a change setting the NPC's hp to 0 and a change of
\* its alive flag, and afterwards the NPC has hp 0 and is not alive
C11_AttackDefeatsTarget ==
    AttackDefeatsCase =>
        LET name == last.pre.npcs[TargetBefore].name
            sc == last.result.state_changes
        IN /\ last.result.success
           /\ \E i \in 1..Len(sc) :
                 sc[i].target = name /\ sc[i].property = "hp" /\ sc[i].value = 0
           /\ \E i \in 1..Len(sc) :
                 sc[i].target = name /\ sc[i].property = "alive"
           /\ world.npcs[TargetBefore].hp = 0
           /\ ~world.npcs[TargetBefore].alive

UnspecifiedAttack == Intent(TRUE, "attack", "da", Unspecified)

\* C12: the built-in attack's can_execute is false for the unspecified
\* target in every world, and a call with that target that the built-in
\* attack resolves fails and leaves the world as it was
C12_UnspecifiedTarget ==
    /\ ~AttackCanExecute(UnspecifiedAttack, world)
    /\ (Called /\ last.intent = UnspecifiedAttack /\ last.chosen = "attack") =>
          /\ last.cans[1] = "false"
          /\ ~last.escaped
          /\ ~last.result.success
          /\ world = last.pre

C12_Witness ==
    /\ Called /\ last.intent = UnspecifiedAttack /\ last.chosen = "attack"
    /\ last.path = "predicate_false"
    /\ Len(last.candidates) = 2

\* the request a skill costing 10 mana would propose
SkillCostRequest == StateOperationRequest("player", "mp", "subtract", 10)

\* the last call was a skill intent, resolved by the built-in skill, in a
\* world where the player's mp is below the skill's cost
LowManaSkillCase ==
    /\ Called /\ last.intent.category = "skill" /\ last.chosen = "skill"
    /\ last.pre.pmp < SkillCostRequest.value

----------------------------------------------------------------------------
(* Transactions of the state managers *)

\* C14: an add_operation that returns False (no manager supports the
\* target, or validation refused) leaves the pending operations, the
\* applied changes and the managers' state as they were
C14_RejectionLeavesTransaction ==
    [][(smlast'.op = "add" /\ ~smlast'.ok)
          => UNCHANGED <<pending, applied, sm>>]_vars

C14_Witness ==
    /\ smlast.op = "add" /\ ~smlast.ok
    /\ Len(pending) >= 1
    /\ sm # InitManagers

\* C15: when an apply_operation faults during execute_transaction, the
\* call reports failure and the managers' state is what it was before the
\* call
C15_AllOrNothing ==
    (smlast.op = "execute" /\ ~smlast.ok) => sm = smlast.pre

----------------------------------------------------------------------------
(* Properties of the map *)

\* the names one unblocked connection leads to from the names in S
Step(map, S) ==
    UNION {{map[l][i].target_location :
               i \in {j \in 1..Len(map[l]) : ~map[l][j].is_blocked}} :
           l \in S \cap DOMAIN map}

\* the names reachable from the names in S by zero or more unblocked
\* connections
RECURSIVE Closure(_, _)
Closure(map, S) ==
    LET T == S \cup Step(map, S)
    IN IF T = S THEN S ELSE Closure(map, T)

\* C18: check_accessibility(from, to) is true exactly when to is reachable
\* from from by zero or more unblocked connections, whether or not the
\* names are locations of the map
C18_AccessibilityIsReachability ==
    probe.op = "check_accessibility" =>
        (probe.result <=>
            probe.to_location \in Closure(env.game_map, {probe.from_location}))

C18_Witness ==
    /\ probe.op = "check_accessibility"
    /\ probe.from_location = "village_center"
    /\ probe.to_location = "lost_mine"
    /\ probe.result

----------------------------------------------------------------------------
(* Properties of a committed transaction *)

\* C17: once commit() has been called, neither a later add_change nor a
\* later rollback (explicit, or on leaving the scope) alters the world,
\* and the committed change list stays what commit returned
C17_ClosedAfterCommit ==
    txn.t.committed =>
        /\ world = txn.atCommit
        /\ txn.t.changes = txn.returned

----------------------------------------------------------------------------
(* Properties of the registry *)

\* the names of the registered functions whose metadata declares no category
Undeclared ==
    {n \in DOMAIN registry.functions :
        registry.functions[n].category = NoCategory}

\* the list the registry keeps for a category
Bucket(category) ==
    IF category \in DOMAIN registry.categories
    THEN registry.categories[category] ELSE <<>>

\* C19: find_functions_by_intent returns the functions registered under
\* the intent's category, in registration order, when the category is a
\* known tag, and otherwise those of the 'other' bucket, which holds every
\* function registered without a declared category
C19_RegistryLookup ==
    (probe.op = "find" /\ ~probe.raised) =>
        IF probe.category \in KnownCategories
        THEN probe.names = Bucket(probe.category)
        ELSE /\ probe.names = Bucket("qita")
             /\ \A n \in Undeclared :
                   \E i \in 1..Len(probe.names) : probe.names[i] = n

----------------------------------------------------------------------------
(* Properties of the reads *)

\* C16: get_current_value, supports_target and can_perform_operation of a
\* state manager and can_execute of a built-in action leave the world and
\* the managers as they were, and a read that directly follows a read of
\* the same operation with the same arguments returns the same result
C16_IdempotentRead ==
    [][probe'.op \in ReadOps =>
          /\ UNCHANGED <<world, sm, env, registry, history, pending, applied>>
          /\ (probe.op = probe'.op /\ probe.args = probe'.args)
                => probe'.value = probe.value]_vars

\* a failed mana check is read after the mana was spent down by a
\* transaction that faulted
C16_Witness ==
    /\ probe.op = "can_perform_operation"
    /\ probe.args[1] = "player"
    /\ ~probe.value.valid
    /\ sm.player.current_mp < WarriorMp

----------------------------------------------------------------------------
(* Properties of the validation of the NPC manager *)

\* the probe holds the NPC manager's answer to an hp subtract on an NPC it
\* knows and that is alive
NPCSubtractValidated ==
    /\ probe.op = "can_perform_operation"
    /\ probe.args[1] = "npc"
    /\ probe.args[2].target \in DOMAIN sm.npcs
    /\ sm.npcs[probe.args[2].target].alive = True
    /\ probe.args[2].property_path = "hp"
    /\ probe.args[2].operation = "subtract"

\* C20: for an hp subtract on a live NPC the NPC manager's
\* can_perform_operation answers valid, with a side-effect request that
\* sets the NPC's alive to false when the hp would reach zero or below, and
\* with no side effect when the hp stays above zero
C20_NPCDeathSideEffect ==
    NPCSubtractValidated =>
        LET request == probe.args[2]
            left == sm.npcs[request.target].hp - request.value
        IN /\ probe.value.valid
           /\ IF left <= 0
              THEN \E i \in 1..Len(probe.value.side_effects) :
                      probe.value.side_effects[i] =
                          StateOperationRequest(request.target, "alive",
                                                "set", False)
              ELSE probe.value.side_effects = <<>>

----------------------------------------------------------------------------
(* Movement *)

\* the name the map knows a place by: the places intents and the player
\* state name are no locations of the starter map
LocationId(place) ==
    CASE place = StartVillage -> "qishi_cunzhuang"
      [] place = <<"sen", "lin">> -> "senlin"
      [] OTHER -> "nowhere"

\* the last call was a movement towards a place the environment manager
\* finds no path to from where the player was
MoveInaccessibleCase ==
    /\ last.intent.category = "move"
    /\ ~check_accessibility(env, LocationId(last.pre.location),
                            LocationId(last.intent.target))

----------------------------------------------------------------------------
(* Search *)

\* the last call was a search that the search action took up, rolling
\* last.d20
SearchCase ==
    /\ last.intent.category = "search"
    /\ last.chosen = "search"
    /\ last.intent.typeOk

\* C22: a search returns success=true exactly when the d20 roll is at
\* least 10 and success=false when it is below, in both cases with no
\* state change
C22_SearchFollowsRoll ==
    SearchCase =>
        /\ ~last.escaped
        /\ last.result.success <=> (last.d20 >= SearchDC)
        /\ last.result.state_changes = <<>>
        /\ world = last.pre

----------------------------------------------------------------------------
(* Attacks *)

\* the last call was an attack the attack action executed
AttackCase ==
    /\ last.intent.category = "attack"
    /\ last.chosen = "attack"
    /\ last.intent.typeOk
    /\ last.path = "executed"

\* the NPCs of a world that are alive (hp > 0) and whose name contains the
\* target
LiveMatches(w, target_name) ==
    {i \in 1..Len(w.npcs) :
        w.npcs[i].hp > 0 /\ NameMatches(target_name, w.npcs[i])}

\* C23: when a live NPC's name contains the target, the attack succeeds
\* and lowers the hp of a live NPC that matches, whatever defeated NPCs of
\* a matching name come before it; and no attack changes an NPC whose hp
\* was already 0
C23_AttackLiveTarget ==
    AttackCase =>
        /\ LiveMatches(last.pre, last.intent.target) # {} =>
              /\ last.result.success
              /\ \E i \in LiveMatches(last.pre, last.intent.target) :
                    world.npcs[i].hp < last.pre.npcs[i].hp
        /\ \A i \in 1..Len(last.pre.npcs) :
              last.pre.npcs[i].hp = 0 => world.npcs[i] = last.pre.npcs[i]

----------------------------------------------------------------------------
(* Routing of the state-manager registry *)

\* the positions, in registration order, of the managers that support the
\* target of the probe
Supporting ==
    {i \in 1..Len(ManagerOrder) :
        supports_target(ManagerOrder[i], sm, env, probe.target)}

----------------------------------------------------------------------------
(* Dice *)

\* the dice rolls held by the last result and by the entries of the
\* execution history
RollsHeld ==
    {last.result.dice_results[i] : i \in 1..Len(last.result.dice_results)}
    \cup UNION {{history[k].dice_results[i] :
                    i \in 1..Len(history[k].dice_results)} :
                k \in 1..Len(history)}

\* C25: every dice roll held by a result or by a history entry has a total
\* equal to its result plus its modifier
C25_TotalIsDerived ==
    \A roll \in RollsHeld : roll.total = roll.result + roll.modifier

C25_Witness ==
    /\ history # <<>>
    /\ \E roll \in RollsHeld : roll.modifier # 0 /\ roll.total = 8

----------------------------------------------------------------------------
(* The failure reason of a result *)

----------------------------------------------------------------------------
(* The call history of the model bridge *)

\* the entries the last process_user_input added to the call history
EntriesAdded ==
    SubSeq(bridge.call_history, bridge.before + 1, Len(bridge.call_history))

\* C27: a call of process_user_input adds three entries to the call
\* history: 'Intent Classification', 'Intent Execution', 'Scene
\* Generation', in that order
C27_ThreeLayersInOrder ==
    bridge.inputs > 0 =>
        EntriesAdded = <<"Intent Classification", "Intent Execution",
                         "Scene Generation">>

----------------------------------------------------------------------------
(* Serialization of intents *)

\* C28: Intent.from_dict(i.to_dict()) has the type, category, action,
\* target, parameters and confidence of i
C28_IntentRoundTrip ==
    probe.op = "from_dict" =>
        /\ probe.restored.type = probe.intent.type
        /\ probe.restored.category = probe.intent.category
        /\ probe.restored.action = probe.intent.action
        /\ probe.restored.target = probe.intent.target
        /\ probe.restored.parameters = probe.intent.parameters
        /\ probe.restored.confidence = probe.intent.confidence

C28_Witness ==
    /\ probe.op = "from_dict"
    /\ probe.intent.type = "QUERY"
    /\ probe.data.type = "chaxun"
    /\ probe.intent.parameters # <<>>
    /\ probe.restored.confidence = 8

----------------------------------------------------------------------------
(* The path find_path returns *)

\* the number of unblocked connections it takes at least to get from a
\* name in S to the name b, counting from k; None when b is out of reach
RECURSIVE Hops(_, _, _, _)
Hops(map, S, b, k) ==
    IF b \in S THEN k
    ELSE LET T == S \cup Step(map, S)
         IN IF T = S THEN None ELSE Hops(map, T, b, k + 1)

\* the unblocked connections of location x whose target is r hops from b
ShortestVia(map, x, b, r) ==
    {i \in 1..Len(map[x]) :
        /\ ~map[x][i].is_blocked
        /\ Hops(map, {map[x][i].target_location}, b, 0) = r}

\* C29: a non-empty path returned by find_path(start, end) goes from start
\* to end along unblocked connections, has the least number of hops, and
\* at each location takes the first connection, in the order of the
\* location's connections, that lies on a path of that least length
C29_ShortestPathFirstFound ==
    (probe.op = "check_accessibility" /\ probe.path # <<>>) =>
        LET path == probe.path
            map == env.game_map
            hops == Len(path) - 1
        IN /\ path[1] = probe.from_location
           /\ path[Len(path)] = probe.to_location
           /\ hops = Hops(map, {probe.from_location}, probe.to_location, 0)
           /\ \A k \in 1..hops :
                 /\ path[k] \in DOMAIN map
                 /\ \E i \in ShortestVia(map, path[k], probe.to_location,
                                         hops - k) :
                       /\ map[path[k]][i].target_location = path[k + 1]
                       /\ \A j \in ShortestVia(map, path[k],
                                               probe.to_location, hops - k) :
                             i <= j

\* two shortest paths lead from the outskirts to the cave, and the one
\* through the forest, the earlier connection, is returned
C29_Witness ==
    /\ probe.op = "check_accessibility"
    /\ probe.from_location = "village_outskirts"
    /\ probe.to_location = "abandoned_cave"
    /\ probe.path = <<"village_outskirts", "dark_forest", "abandoned_cave">>
    /\ Cardinality(ShortestVia(env.game_map, "village_outskirts",
                               "abandoned_cave", 1)) = 2

----------------------------------------------------------------------------
(* The result of a successful attack *)

\* the last call was an attack that succeeded
AttackSucceeded == AttackCase /\ last.result.success

\* the NPCs of the world before the call that the state change names
Struck ==
    {i \in 1..Len(last.pre.npcs) :
        last.pre.npcs[i].name = last.result.state_changes[1].target}

\* C30: a successful attack carries one damage roll, of result 1..6 and
\* modifier 2, and one state change on the hp of the NPC struck, from the
\* hp before the call to max(0, hp - (result + modifier)), which is the
\* hp the NPC has after the call: never negative, never higher than before
C30_AttackDamage ==
    AttackSucceeded =>
        /\ Len(last.result.dice_results) = 1
        /\ last.result.dice_results[1].result \in 1..6
        /\ last.result.dice_results[1].modifier = 2
        /\ Len(last.result.state_changes) = 1
        /\ last.result.state_changes[1].property = "hp"
        /\ Cardinality(Struck) = 1
        /\ \A i \in Struck :
              LET change == last.result.state_changes[1]
                  roll == last.result.dice_results[1]
              IN /\ NameMatches(last.intent.target, last.pre.npcs[i])
                 /\ change.old_value = last.pre.npcs[i].hp
                 /\ change.value =
                       Max(0, change.old_value - (roll.result + roll.modifier))
                 /\ world.npcs[i].hp = change.value
                 /\ world.npcs[i].hp >= 0
                 /\ world.npcs[i].hp <= last.pre.npcs[i].hp

\* a blow of 8 on a goblin of 4 hp leaves it at 0
C30_Witness ==
    /\ AttackSucceeded
    /\ last.result.state_changes[1].old_value = 4
    /\ last.result.dice_results[1].total = 8
    /\ last.result.state_changes[1].value = 0

----------------------------------------------------------------------------
(* Healing *)

\* the last call was a healing skill that the skill action took up and
\* whose skill roll, last.d20, reached the difficulty
HealCase ==
    /\ last.intent.category = "skill"
    /\ last.chosen = "skill"
    /\ last.intent.typeOk
    /\ last.intent.action \in HealingSkills
    /\ last.d20 >= SkillDC

\* C31: a healing skill whose roll passes succeeds; below max_hp it raises
\* the player's hp, by no more than to max_hp, and reports that as one
\* committed hp change; at full hp it produces no state change; the
\* player's hp never exceeds max_hp and a heal never lowers it
C31_HealRaisesHp ==
    /\ world.php <= world.pmax
    /\ HealCase =>
          /\ last.result.success
          /\ world.php >= last.pre.php
          /\ IF last.pre.php < last.pre.pmax
             THEN /\ world.php > last.pre.php
                  /\ Len(last.result.state_changes) = 1
                  /\ last.result.state_changes[1].target = PlayerTarget
                  /\ last.result.state_changes[1].property = "hp"
                  /\ last.result.state_changes[1].old_value = last.pre.php
                  /\ last.result.state_changes[1].value = world.php
             ELSE last.result.state_changes = <<>>

----------------------------------------------------------------------------
(* Status queries *)

\* the last call was a status query that the status action took up
StatusCase ==
    /\ last.intent.category = "status"
    /\ last.chosen = "status"
    /\ last.intent.typeOk

\* the paths of process that pass through its with block, where a
\* RealStateTransaction is entered
TransactionPaths == {"fault", "fault_after", "executed"}

\* C32: processing a status intent opens no transaction, returns an empty
\* state_changes list and leaves every field of the world unchanged
C32_StatusBypassesTransaction ==
    StatusCase =>
        /\ last.path \notin TransactionPaths
        /\ last.result.state_changes = <<>>
        /\ world = last.pre

----------------------------------------------------------------------------
(* Consistency of the registry *)

\* the places where a name is held: a category and a position of its list
Held(name) ==
    UNION {{<<c, i>> : i \in {j \in 1..Len(registry.categories[c]) :
                                 registry.categories[c][j] = name}} :
           c \in DOMAIN registry.categories}

\* C33: after any sequence of register and unregister calls every name held
\* in a category list is a registered function, and every registered name
\* is held exactly once, in exactly one category list
C33_RegistryConsistent ==
    /\ \A c \in DOMAIN registry.categories :
          \A i \in 1..Len(registry.categories[c]) :
             registry.categories[c][i] \in DOMAIN registry.functions
    /\ \A n \in DOMAIN registry.functions : Cardinality(Held(n)) = 1

----------------------------------------------------------------------------
(* Predicate and execution on the target *)

\* the last call went to the built-in attack, dialogue or trade action and
\* its can_execute answered true
TargetCase ==
    /\ last.chosen \in {"attack", "dialogue", "trade"}
    /\ last.cans # <<>>
    /\ last.cans[1] = "true"

\* the NPCs of the world of the call that the action's search accepts
Accepted ==
    {i \in 1..Len(last.pre.npcs) :
        /\ NameMatches(last.intent.target, last.pre.npcs[i])
        /\ last.chosen = "trade" => last.pre.npcs[i].type \in MerchantTypes}

\* C34: whenever can_execute of the built-in attack, dialogue or trade
\* action is true, execute on the same intent and world finds a target
\* and does not return the 'target not found' failure
C34_PredicateAgreesWithExecute ==
    TargetCase =>
        /\ last.path \in TransactionPaths
        /\ Accepted # {}
        /\ last.result.failure_reason
              \notin {"target_not_found", "merchant_not_found"}

\* a trade with the merchant, and a dialogue with the merchant
C34_Witness ==
    /\ TargetCase
    /\ last.chosen \in {"trade", "dialogue"}
    /\ last.intent.target \in {<<"ren">>, Merchant}

----------------------------------------------------------------------------
(* Resource subtractions *)

\* the sum of the values of the mp subtracts among the operations
RECURSIVE MpSubtracted(_)
MpSubtracted(operations) ==
    IF operations = <<>> THEN 0
    ELSE (IF /\ PlayerSupportsTarget(Head(operations).target)
             /\ PlayerAttribute(Head(operations).property_path) = "current_mp"
             /\ Head(operations).operation = "subtract"
          THEN Head(operations).value ELSE 0)
         + MpSubtracted(Tail(operations))

\* the first execute_transaction has just run on the accepted operations
FirstExecution == smlast.op = "execute" /\ smlast.execs = 1

\* C35: after add_operation calls followed by execute_transaction, every
\* accepted mp subtract has lowered the player's current mp by exactly its
\* value, and the total subtracted does not exceed the mp available when
\* the transaction started
C35_SubtractionsAppliedInFull ==
    FirstExecution =>
        /\ MpSubtracted(pending) <= smlast.pre.player.current_mp
        /\ sm.player.current_mp =
              smlast.pre.player.current_mp - MpSubtracted(pending)

----------------------------------------------------------------------------
(* The NPC manager's data *)

\* C36: after any sequence of hp operations that were accepted and then
\* applied, an NPC's hp is never negative and its alive flag is false
\* whenever its hp is zero or below
C36_DeadAtZero ==
    \A n \in DOMAIN sm.npcs :
        /\ sm.npcs[n].hp >= 0
        /\ sm.npcs[n].hp <= 0 => sm.npcs[n].alive = False

----------------------------------------------------------------------------
(* Dead NPCs *)

\* the requests on an NPC's attributes other than its alive flag
AttributeRequests == {r \in Requests : r.property_path # "alive"}

\* whether one of the requests, applied in order from the state m, is
\* applied to an NPC whose alive flag is false at that moment
RECURSIVE AppliedToDead(_, _)
AppliedToDead(m, requests) ==
    IF requests = <<>> THEN FALSE
    ELSE LET request == Head(requests)
             manager == get_manager_for_target(m, request.target)
         IN IF manager = "npc" /\ request.target \in DOMAIN m.npcs
            THEN \/ /\ m.npcs[request.target].alive = False
                    /\ request.property_path # "alive"
                 \/ AppliedToDead(NPCApply(m, request), Tail(requests))
            ELSE IF manager = "player"
            THEN AppliedToDead(PlayerApply(m, request), Tail(requests))
            ELSE AppliedToDead(m, Tail(requests))

\* C37: once an NPC's alive flag is false, validation rejects with a
\* reason every request on it whose property is not 'alive', and requests
\* on a target the NPC manager has no data for; so execute_transaction
\* applies no such operation to a dead NPC
C37_DeadNPCFrozen ==
    /\ \A r \in AttributeRequests :
          (/\ r.target \in DOMAIN sm.npcs
           /\ sm.npcs[r.target].alive = False)
             => /\ ~NPCCanPerform(sm, r).valid
                /\ NPCCanPerform(sm, r).reason # ""
    /\ \A r \in Requests :
          (NPCSupportsTarget(sm, r.target) /\ r.target \notin DOMAIN sm.npcs)
             => ~NPCCanPerform(sm, r).valid
    /\ smlast.op = "execute" => ~AppliedToDead(smlast.pre, smlast.calls)

----------------------------------------------------------------------------
(* Executing a transaction again *)

\* C38: when execute_transaction is called again after execute_transaction,
\* with no add_operation between, it applies no operation a second time
\* and leaves the managers' state unchanged
C38_ExecuteAgainAppliesNothing ==
    [][(smlast.op = "execute" /\ smlast'.op = "execute"
          /\ smlast'.execs = smlast.execs + 1)
          => (smlast'.calls = <<>> /\ sm' = sm)]_vars

----------------------------------------------------------------------------
(* The player's death *)

\* the operation the player's validation cascades
PlayerDeath == StateOperationRequest("player", "alive", "set", False)

\* an execute_transaction has just applied a player hp subtract that was
\* accepted and brings hp to zero or below
PlayerDeathCase ==
    /\ smlast.op = "execute"
    /\ \E i \in 1..Len(smlast.calls) :
          /\ CrossesZero("player", smlast.pre, smlast.calls[i])
          /\ \A j \in 1..(i - 1) : smlast.calls[j].target # "player"

\* C39: when an accepted player hp subtract that brings hp to zero or
\* below is executed, the cascaded alive = false operation is applied, so
\* that afterwards the player's hp is 0 and the player's 'alive' reads
\* false
C39_PlayerDeathCascade ==
    PlayerDeathCase =>
        /\ smlast.ok
        /\ \E i \in 1..Len(smlast.calls) : smlast.calls[i] = PlayerDeath
        /\ sm.player.current_hp = 0
        /\ PlayerGetCurrentValue(sm, "player", "alive") = False

====
